---- MODULE Spec2Model ----
(***************************************************************************)
(* Model of the response interpretation and presentation logic of the      *)
(* authkit test scripts (examples/testscript).                             *)
(*                                                                         *)
(* Part 1 (specification Spec): one HTTP response is in flight; each        *)
(* action is one operation of share.py or of a script receiving that       *)
(* response and classifying it.  The operations are translated statement   *)
(* by statement, Python's exceptions included: a result records what the   *)
(* caller gets back (the returned value) or the exception that leaves the  *)
(* function.  The console and message texts of the scripts are Vietnamese;  *)
(* they are written here without their diacritics.                         *)
(*                                                                         *)
(* Part 2 (specification SpecMain): one run of filter_rules.main or of     *)
(* list_rule_has_role.main, statement by statement: the login, the role    *)
(* listing that builds role_names_map, then for every step the rule        *)
(* request and the rendering by share.print_rules_list.                    *)
(*                                                                         *)
(* Part 3 (specification SpecRender): one call of a function that builds   *)
(* or renders a listing (share.get_role_names_map, the rule line and the   *)
(* list renderers of the scripts) on arguments drawn from bounded sets.    *)
(***************************************************************************)
EXTENDS Integers, Sequences, FiniteSets, TLC

VARIABLES
    resp,       \* the HTTP exchange the operation observes
    op,         \* the operation that has classified resp ("none" before)
    result,     \* what that operation handed to its caller
    pc,         \* "ready": response in flight, "done": operation returned
    \* ---- part 2: a run of main ----
    script,            \* "filter_rules" or "list_rule_has_role" ("none" in part 1)
    mpc,               \* the statement of main that runs next
    step,              \* the rule-listing step main is at (1 = "Buoc 2")
    admin_token,       \* the token main logged in with
    role_names_map,    \* main's role_names_map (unbound before it is assigned)
    step_rules,        \* the rule list main got at the current step
    used_map,          \* the map the last listing of a non-empty rule list was rendered with
    roles_requests,    \* GET /api/roles requests sent so far
    refetches,         \* those of them sent from inside print_rules_list
    renders,           \* print_rules_list calls so far
    nonempty_renders,  \* those of them that got past `if not rules`
    \* ---- part 3: one call of a builder or renderer ----
    given,             \* the arguments of the call
    shown,             \* the function called, what it returned and what it printed
    \* ---- part 4: one invocation of a function or of a script's main ----
    prog,              \* the function that runs ("none" in the other parts)
    ppc,               \* the statement of it that runs next
    env,               \* its arguments and local variables
    sent,              \* the HTTP requests it has sent, in order
    ret                \* how it ended: returned value, exit code or exception

partvars == <<resp, op, result, pc>>
mainvars == <<script, mpc, step, admin_token, role_names_map, step_rules, used_map,
              roles_requests, refetches, renders, nonempty_renders>>
rendervars == <<given, shown>>
scriptvars == <<prog, ppc, env, sent, ret>>
vars == <<resp, op, result, pc, script, mpc, step, admin_token, role_names_map, step_rules,
          used_map, roles_requests, refetches, renders, nonempty_renders, given, shown,
          prog, ppc, env, sent, ret>>

----------------------------------------------------------------------------
(* JSON / Python values.  Every value is a record of the same shape:       *)
(*   k: "absent" (key not in the dict), "null" (None), "str", "obj"        *)
(*      (dict), "list"; s: the text of a str; o: the items of a dict, a    *)
(*      sequence of [key, val] whose val is a leaf [k, s] (k "null", "str" *)
(*      or "obj" for a nested empty dict), or the elements of a list.      *)

JAbsent == [k |-> "absent", s |-> "", o |-> <<>>]
JNull == [k |-> "null", s |-> "", o |-> <<>>]
JStr(x) == [k |-> "str", s |-> x, o |-> <<>>]
JObj(items) == [k |-> "obj", s |-> "", o |-> items]
JList(items) == [k |-> "list", s |-> "", o |-> items]

Item(key, val) == [key |-> key, val |-> val]
LNull == [k |-> "null", s |-> ""]
LStr(x) == [k |-> "str", s |-> x]
LObj == [k |-> "obj", s |-> ""]

Lift(leaf) == [k |-> leaf.k, s |-> leaf.s, o |-> <<>>]

\* `key in d` for a dict value d
HasKey(d, key) == \E i \in 1..Len(d.o) : d.o[i].key = key

\* d.get(key, default) for a dict value d
DictGet(d, key, default) ==
    IF HasKey(d, key)
    THEN Lift(d.o[CHOOSE i \in 1..Len(d.o) : d.o[i].key = key].val)
    ELSE default

\* bool(v)
PyTruthy(v) ==
    CASE v.k = "str" -> v.s /= ""
      [] v.k = "obj" -> Len(v.o) > 0
      [] v.k = "list" -> Len(v.o) > 0
      [] OTHER -> FALSE

\* repr() / json.dumps() of a leaf
LeafRepr(leaf) ==
    CASE leaf.k = "str" -> "'" \o leaf.s \o "'"
      [] leaf.k = "obj" -> "{}"
      [] OTHER -> "None"

LeafJson(leaf) ==
    CASE leaf.k = "str" -> "\"" \o leaf.s \o "\""
      [] leaf.k = "obj" -> "{}"
      [] OTHER -> "null"

RECURSIVE ItemsRepr(_)
ItemsRepr(items) ==
    IF Len(items) = 0 THEN ""
    ELSE "'" \o items[1].key \o "': " \o LeafRepr(items[1].val)
         \o (IF Len(items) > 1 THEN ", " ELSE "") \o ItemsRepr(Tail(items))

RECURSIVE ItemsJson(_)
ItemsJson(items) ==
    IF Len(items) = 0 THEN ""
    ELSE "\"" \o items[1].key \o "\": " \o LeafJson(items[1].val)
         \o (IF Len(items) > 1 THEN ", " ELSE "") \o ItemsJson(Tail(items))

\* str(v)
PyStr(v) ==
    CASE v.k = "str" -> v.s
      [] v.k = "obj" -> "{" \o ItemsRepr(v.o) \o "}"
      [] v.k = "list" -> "[...]"
      [] OTHER -> "None"

\* json.dumps(v, ensure_ascii=False) of a dict
JsonDumps(v) == "{" \o ItemsJson(v.o) \o "}"

----------------------------------------------------------------------------
(* The response envelope: a decoded JSON object with the keys the          *)
(* operations probe.                                                       *)

Body(e, m, d, t) == [error |-> e, message |-> m, data |-> d, type |-> t]

\* `key in resp_data` and resp_data.get(key, default)
InBody(resp_data, key) == resp_data[key].k /= "absent"
BodyGet(resp_data, key, default) ==
    IF InBody(resp_data, key) THEN resp_data[key] ELSE default

ErrorShapes ==
    { JAbsent, JNull, JStr(""), JStr("bad credentials"),
      JObj(<<>>),
      JObj(<<Item("code", LStr("E1"))>>),
      JObj(<<Item("message", LStr("denied"))>>),
      JObj(<<Item("message", LNull)>>) }

MessageShapes == { JAbsent, JNull, JStr(""), JStr("top message") }

DataShapes ==
    { JAbsent, JNull,
      JObj(<<>>),
      JObj(<<Item("id", LStr("5"))>>),
      JObj(<<Item("token", LStr("tk")), Item("user", LObj)>>),
      JList(<<LObj>>) }

TypeShapes == { JAbsent, JStr("VALIDATION") }

Bodies ==
    { Body(e, m, d, t) :
        e \in ErrorShapes, m \in MessageShapes, d \in DataShapes, t \in TypeShapes }

NoBody == Body(JAbsent, JAbsent, JAbsent, JAbsent)

\* resp.text of a body that is not JSON
RawText == "<html>502 Bad Gateway</html>"

Statuses == {200, 201, 400, 401, 500}

\* net: "ok" (a response arrived) or "conn_error" (requests raised a
\* ConnectionError/Timeout); json: whether resp.json() decodes the body.
Responses ==
    { [net |-> "ok", status |-> st, json |-> TRUE, body |-> b] : st \in Statuses, b \in Bodies }
    \cup { [net |-> "ok", status |-> st, json |-> FALSE, body |-> NoBody] : st \in Statuses }
    \cup { [net |-> "conn_error", status |-> 0, json |-> FALSE, body |-> NoBody] }

----------------------------------------------------------------------------
(* Results.  ok: the success flag (or "the returned value is not None")    *)
(* the caller tests; payload: the returned data (JWhole: the whole decoded *)
(* body); msg: the returned error message; printed: the lines written by   *)
(* error(...), in order; exc: the exception leaving the function ("none"   *)
(* when it returned).                                                      *)

JWhole == [k |-> "body", s |-> "", o |-> <<>>]

Result(ok, payload, msg, printed) ==
    [ok |-> ok, payload |-> payload, msg |-> msg, printed |-> printed, exc |-> "none"]
Raise(e) ==
    [ok |-> FALSE, payload |-> JNull, msg |-> JNull, printed |-> <<>>, exc |-> e]

NoResult == Result(FALSE, JAbsent, JAbsent, <<>>)

\* str(e) of the exceptions Python and requests raise here
ExcText(e, status) ==
    CASE e = "HTTPError" ->
           ToString(status) \o (IF status < 500 THEN " Client Error" ELSE " Server Error")
      [] e = "JSONDecodeError" -> "Expecting value: line 1 column 1 (char 0)"
      [] e = "ConnectionError" -> "Connection refused"
      [] e = "AttributeError" -> "object has no attribute 'get'"
      [] e = "TypeError" -> "unsupported operand type(s)"
      [] OTHER -> e

----------------------------------------------------------------------------
(* share.py                                                                *)

\* handle_error_response without the dict case: str(error_value) always
handle_error_msg_str_only(resp_data) ==
    JStr(PyStr(BodyGet(resp_data, "error", JStr(""))))

\* share.handle_error_response: the local error_msg
handle_error_msg(resp_data) ==
    LET error_value == BodyGet(resp_data, "error", JStr(""))
    IN  IF error_value.k = "obj"
        THEN DictGet(error_value, "message", JStr(PyStr(error_value)))
        ELSE JStr(PyStr(error_value))

\* share.handle_error_response: the three error(...) lines
handle_error_response(resp_data, operation) ==
    LET error_type == BodyGet(resp_data, "type", JStr("UNKNOWN"))
    IN  << "Loi khi " \o operation,
           "Loai loi: " \o PyStr(error_type),
           "Chi tiet: " \o PyStr(handle_error_msg(resp_data)) >>

\* share.login
login(r) ==
    IF r.net = "conn_error" THEN Raise("ConnectionError")
    ELSE IF r.status >= 400 THEN Raise("HTTPError")            \* raise_for_status()
    ELSE IF ~r.json THEN Raise("JSONDecodeError")
    ELSE IF InBody(r.body, "error") THEN Raise("SystemExit")
    ELSE IF ~InBody(r.body, "data") THEN Raise("SystemExit")
    ELSE IF r.body.data.k /= "obj" THEN Raise("AttributeError") \* .get on a non-dict
    ELSE LET token == DictGet(r.body.data, "token", JNull)
             user == DictGet(r.body.data, "user", JObj(<<>>))
         IN  IF ~PyTruthy(token) THEN Raise("SystemExit")
             ELSE IF user.k /= "obj" THEN Raise("AttributeError")
             ELSE Result(TRUE, token, JNull, <<>>)

\* login_safe catching SystemExit only: any other exception of login leaves it
login_safe_only_system_exit(r) ==
    LET l == login(r)
    IN  IF l.exc = "none" THEN Result(TRUE, l.payload, JNull, <<>>)
        ELSE IF l.exc = "SystemExit"
        THEN Result(FALSE, JNull, JStr("Dang nhap that bai"), <<>>)
        ELSE l

\* share.login_safe
login_safe(r) ==
    LET l == login(r)
    IN  IF l.exc = "none" THEN Result(TRUE, l.payload, JNull, <<>>)
        ELSE IF l.exc = "SystemExit"
        THEN Result(FALSE, JNull, JStr("Dang nhap that bai"), <<>>)
        ELSE Result(FALSE, JNull,
                    JStr("Loi khong mong doi: " \o ExcText(l.exc, r.status)), <<>>)

\* share.create_role
create_role(r) ==
    IF r.net = "conn_error"
    THEN Result(FALSE, JNull, JNull,
                <<"Loi khi tao role: " \o ExcText("ConnectionError", r.status)>>)
    ELSE IF ~r.json
    THEN Result(FALSE, JNull, JNull,
                <<"Loi khi tao role: " \o ExcText("JSONDecodeError", r.status)>>)
    ELSE IF r.status >= 400 \/ InBody(r.body, "error")
    THEN Result(FALSE, JNull, JNull, handle_error_response(r.body, "tao role"))
    ELSE Result(TRUE, JNull, JNull, <<>>)

\* share.update_user_roles
update_user_roles(r) ==
    IF r.net = "conn_error"
    THEN Result(FALSE, JNull, JNull,
                <<"Loi khi cap nhat roles: " \o ExcText("ConnectionError", r.status)>>)
    ELSE IF ~r.json
    THEN Result(FALSE, JNull, JNull,
                <<"Loi khi cap nhat roles: " \o ExcText("JSONDecodeError", r.status)>>)
    ELSE IF r.status >= 400 \/ InBody(r.body, "error")
    THEN Result(FALSE, JWhole, JNull,
                handle_error_response(r.body, "cap nhat roles cho user"))
    ELSE Result(TRUE, JWhole, JNull, <<>>)

\* share.get_profile (verbose=True)
get_profile(r) ==
    IF r.net = "conn_error"
    THEN Result(FALSE, JNull, JNull,
                <<"Loi khi goi API: " \o ExcText("ConnectionError", r.status)>>)
    ELSE IF r.status /= 200
    THEN Result(FALSE, JNull, JNull,
                <<"Request that bai voi status code: " \o ToString(r.status)>>
                \o (IF r.json
                    THEN handle_error_response(r.body, "lay thong tin profile")
                    ELSE <<"Response: " \o RawText>>))
    ELSE IF ~r.json     \* a requests JSONDecodeError is a RequestException
    THEN Result(FALSE, JNull, JNull,
                <<"Loi khi goi API: " \o ExcText("JSONDecodeError", r.status)>>)
    ELSE IF InBody(r.body, "error")
    THEN Result(FALSE, JNull, JNull,
                handle_error_response(r.body, "lay thong tin profile"))
    ELSE IF ~InBody(r.body, "data")
    THEN Result(FALSE, JNull, JNull, <<"Response khong hop le:">>)
    ELSE LET user == r.body.data
         IN  IF user.k /= "obj"      \* user.get(...) on None or a list
             THEN Result(FALSE, JNull, JNull,
                         <<"Loi khong mong doi: " \o ExcText("AttributeError", r.status)>>)
             ELSE Result(TRUE, user, JNull, <<>>)

\* share.filter_rules (verbose=True)
filter_rules(r) ==
    IF r.net = "conn_error"
    THEN Result(FALSE, JNull, JNull,
                <<"Loi khi goi API: " \o ExcText("ConnectionError", r.status)>>)
    ELSE IF r.status /= 200
    THEN Result(FALSE, JNull, JNull,
                <<"Request that bai voi status code: " \o ToString(r.status)>>
                \o (IF r.json
                    THEN handle_error_response(r.body, "lay danh sach rules")
                    ELSE <<"Response: " \o RawText>>))
    ELSE IF ~r.json
    THEN Result(FALSE, JNull, JNull,
                <<"Loi khi goi API: " \o ExcText("JSONDecodeError", r.status)>>)
    ELSE IF InBody(r.body, "error")
    THEN Result(FALSE, JNull, JNull,
                handle_error_response(r.body, "lay danh sach rules"))
    ELSE IF ~InBody(r.body, "data")
    THEN Result(FALSE, JNull, JNull, <<"Response khong hop le:">>)
    ELSE LET rules == r.body.data
         IN  IF rules.k = "null"     \* len(None)
             THEN Result(FALSE, JNull, JNull,
                         <<"Loi khong mong doi: " \o ExcText("TypeError", r.status)>>)
             ELSE Result(TRUE, rules, JNull, <<>>)

\* delete_user without the `elif isinstance(error_obj, str)` branch
delete_user_no_string_error(r) ==
    IF r.net = "conn_error"
    THEN Result(FALSE, JNull,
                JStr("Loi ket noi: " \o ExcText("ConnectionError", r.status)), <<>>)
    ELSE IF ~r.json
    THEN Result(FALSE, JNull,
                JStr("Response khong phai JSON. Status: " \o ToString(r.status)), <<>>)
    ELSE IF r.status /= 200
    THEN LET unknown == JStr("Loi xoa user khong xac dinh")
             error_obj == BodyGet(r.body, "error", JNull)
             from_error ==
                 IF error_obj.k = "obj" THEN DictGet(error_obj, "message", unknown)
                 ELSE unknown
             error_msg ==
                 IF InBody(r.body, "message")
                 THEN BodyGet(r.body, "message", from_error)
                 ELSE from_error
         IN  Result(FALSE, JNull, error_msg, <<>>)
    ELSE Result(TRUE, JNull, JNull, <<>>)

\* share.delete_user
delete_user(r) ==
    IF r.net = "conn_error"
    THEN Result(FALSE, JNull,
                JStr("Loi ket noi: " \o ExcText("ConnectionError", r.status)), <<>>)
    ELSE IF ~r.json
    THEN Result(FALSE, JNull,
                JStr("Response khong phai JSON. Status: " \o ToString(r.status)), <<>>)
    ELSE IF r.status /= 200
    THEN LET unknown == JStr("Loi xoa user khong xac dinh")
             error_obj == BodyGet(r.body, "error", JNull)
             from_error ==
                 IF error_obj.k = "obj" THEN DictGet(error_obj, "message", unknown)
                 ELSE IF error_obj.k = "str" THEN error_obj
                 ELSE unknown
             error_msg ==
                 IF InBody(r.body, "message")
                 THEN BodyGet(r.body, "message", from_error)
                 ELSE from_error
         IN  Result(FALSE, JNull, error_msg, <<>>)
    ELSE Result(TRUE, JNull, JNull, <<>>)

----------------------------------------------------------------------------
(* register_user.py, list_users.py, update_user_profile.py                 *)
(* `except json.JSONDecodeError` catches the error of resp.json() (requests *)
(* without simplejson: its JSONDecodeError derives from json's).            *)

\* register_user.register_user
register_user(r) ==
    IF r.net = "conn_error"
    THEN Result(FALSE, JNull,
                JStr("Loi ket noi: " \o ExcText("ConnectionError", r.status)), <<>>)
    ELSE IF ~r.json
    THEN Result(FALSE, JNull,
                JStr("Response khong phai JSON. Status: " \o ToString(r.status)), <<>>)
    ELSE IF r.status /= 201
    THEN LET unknown == JStr("Loi khong xac dinh")
             error_obj == BodyGet(r.body, "error", JNull)
             from_error ==
                 IF error_obj.k = "obj" THEN DictGet(error_obj, "message", unknown)
                 ELSE IF error_obj.k = "str" THEN error_obj
                 ELSE unknown
             error_msg ==
                 IF InBody(r.body, "message")
                 THEN BodyGet(r.body, "message", from_error)
                 ELSE from_error
             error_details ==
                 IF InBody(r.body, "data") /\ r.body.data.k = "obj"
                 THEN r.body.data ELSE JObj(<<>>)
         IN  IF PyTruthy(error_details)
             THEN IF error_msg.k /= "str"       \* None += str
                  THEN Result(FALSE, JNull,
                              JStr("Loi khong xac dinh: " \o ExcText("TypeError", r.status)),
                              <<>>)
                  ELSE Result(FALSE, JNull,
                              JStr(error_msg.s \o " | Chi tiet: " \o JsonDumps(error_details)),
                              <<>>)
             ELSE Result(FALSE, JNull, error_msg, <<>>)
    ELSE IF ~InBody(r.body, "data")
    THEN Result(FALSE, JNull, JStr("Response khong chua data"), <<>>)
    ELSE LET user_info == r.body.data
         IN  IF user_info.k /= "obj"      \* user_info.get('id', 'N/A') in success(...)
             THEN Result(FALSE, JNull,
                         JStr("Loi khong xac dinh: " \o ExcText("AttributeError", r.status)),
                         <<>>)
             ELSE Result(TRUE, user_info, JNull, <<>>)

\* list_users.register_user (prints nothing on success)
list_users_register_user(r) ==
    IF r.net = "conn_error"
    THEN Result(FALSE, JNull,
                JStr("Loi ket noi: " \o ExcText("ConnectionError", r.status)), <<>>)
    ELSE IF ~r.json
    THEN Result(FALSE, JNull,
                JStr("Response khong phai JSON. Status: " \o ToString(r.status)), <<>>)
    ELSE IF r.status /= 201
    THEN LET unknown == JStr("Loi khong xac dinh")
             error_obj == BodyGet(r.body, "error", JNull)
             from_error ==
                 IF error_obj.k = "obj" THEN DictGet(error_obj, "message", unknown)
                 ELSE IF error_obj.k = "str" THEN error_obj
                 ELSE unknown
             error_msg ==
                 IF InBody(r.body, "message")
                 THEN BodyGet(r.body, "message", from_error)
                 ELSE from_error
             error_details ==
                 IF InBody(r.body, "data") /\ r.body.data.k = "obj"
                 THEN r.body.data ELSE JObj(<<>>)
         IN  IF PyTruthy(error_details)
             THEN IF error_msg.k /= "str"
                  THEN Result(FALSE, JNull,
                              JStr("Loi khong xac dinh: " \o ExcText("TypeError", r.status)),
                              <<>>)
                  ELSE Result(FALSE, JNull,
                              JStr(error_msg.s \o " | Chi tiet: " \o JsonDumps(error_details)),
                              <<>>)
             ELSE Result(FALSE, JNull, error_msg, <<>>)
    ELSE IF ~InBody(r.body, "data")
    THEN Result(FALSE, JNull, JStr("Response khong chua data"), <<>>)
    ELSE Result(TRUE, r.body.data, JNull, <<>>)

\* update_user_profile.register_user testing for 200 instead of 201
update_user_profile_register_user_200(r) ==
    IF r.net = "conn_error"
    THEN Result(FALSE, JNull,
                JStr("Loi ket noi: " \o ExcText("ConnectionError", r.status)), <<>>)
    ELSE IF ~r.json
    THEN Result(FALSE, JNull,
                JStr("Response khong phai JSON. Status: " \o ToString(r.status)), <<>>)
    ELSE IF r.status /= 200
    THEN Result(FALSE, JNull, JStr("Loi khong xac dinh"), <<>>)
    ELSE IF ~InBody(r.body, "data")
    THEN Result(FALSE, JNull, JStr("Response khong chua data"), <<>>)
    ELSE LET user_info == r.body.data
         IN  IF user_info.k /= "obj"
             THEN Result(FALSE, JNull,
                         JStr("Loi khong xac dinh: " \o ExcText("AttributeError", r.status)),
                         <<>>)
             ELSE Result(TRUE, user_info, JNull, <<>>)

\* update_user_profile.register_user
update_user_profile_register_user(r) ==
    IF r.net = "conn_error"
    THEN Result(FALSE, JNull,
                JStr("Loi ket noi: " \o ExcText("ConnectionError", r.status)), <<>>)
    ELSE IF ~r.json
    THEN Result(FALSE, JNull,
                JStr("Response khong phai JSON. Status: " \o ToString(r.status)), <<>>)
    ELSE IF r.status /= 201
    THEN LET unknown == JStr("Loi khong xac dinh")
             error_obj == BodyGet(r.body, "error", JNull)
             from_error ==
                 IF error_obj.k = "obj" THEN DictGet(error_obj, "message", unknown)
                 ELSE IF error_obj.k = "str" THEN error_obj
                 ELSE unknown
             error_msg ==
                 IF InBody(r.body, "message")
                 THEN BodyGet(r.body, "message", from_error)
                 ELSE from_error
         IN  Result(FALSE, JNull, error_msg, <<>>)
    ELSE IF ~InBody(r.body, "data")
    THEN Result(FALSE, JNull, JStr("Response khong chua data"), <<>>)
    ELSE LET user_info == r.body.data
         IN  IF user_info.k /= "obj"
             THEN Result(FALSE, JNull,
                         JStr("Loi khong xac dinh: " \o ExcText("AttributeError", r.status)),
                         <<>>)
             ELSE Result(TRUE, user_info, JNull, <<>>)

----------------------------------------------------------------------------
(* change_pass.py, reset_pass.py, login_cookie.py                          *)

\* change_pass.logout (update_user_profile.logout is the same text)
logout(r) ==
    IF r.net = "conn_error"
    THEN Result(FALSE, JNull,
                JStr("Loi ket noi: " \o ExcText("ConnectionError", r.status)), <<>>)
    ELSE IF ~r.json
    THEN Result(FALSE, JNull,
                JStr("Response khong phai JSON. Status: " \o ToString(r.status)), <<>>)
    ELSE IF r.status /= 200
    THEN LET unknown == JStr("Loi logout khong xac dinh")
             error_obj == BodyGet(r.body, "error", JNull)
             from_error ==
                 IF error_obj.k = "obj" THEN DictGet(error_obj, "message", unknown)
                 ELSE IF error_obj.k = "str" THEN error_obj
                 ELSE unknown
             error_msg ==
                 IF InBody(r.body, "message")
                 THEN BodyGet(r.body, "message", from_error)
                 ELSE from_error
         IN  Result(FALSE, JNull, error_msg, <<>>)
    ELSE Result(TRUE, JNull, JNull, <<>>)

\* change_pass.change_password (reset_pass.change_password is the same text)
change_password(r) ==
    IF r.net = "conn_error"
    THEN Result(FALSE, JNull,
                JStr("Loi ket noi: " \o ExcText("ConnectionError", r.status)), <<>>)
    ELSE IF ~r.json
    THEN Result(FALSE, JNull,
                JStr("Response khong phai JSON. Status: " \o ToString(r.status)), <<>>)
    ELSE IF r.status /= 200
    THEN LET unknown == JStr("Loi doi mat khau khong xac dinh")
             error_obj == BodyGet(r.body, "error", JNull)
             from_error ==
                 IF error_obj.k = "obj" THEN DictGet(error_obj, "message", unknown)
                 ELSE IF error_obj.k = "str" THEN error_obj
                 ELSE unknown
             error_msg ==
                 IF InBody(r.body, "message")
                 THEN BodyGet(r.body, "message", from_error)
                 ELSE from_error
         IN  Result(FALSE, JNull, error_msg,
                    handle_error_response(r.body, "doi mat khau"))
    ELSE Result(TRUE, JNull, JNull, <<>>)

\* reset_pass.reset_password_with_token
reset_password_with_token(r) ==
    IF r.net = "conn_error"
    THEN Result(FALSE, JNull, JNull,
                <<"Loi ket noi: " \o ExcText("ConnectionError", r.status)>>)
    ELSE IF r.status = 200
    THEN Result(TRUE, JNull, JNull, <<>>)     \* the body is only printed
    ELSE Result(FALSE, JNull, JNull,
                <<"Dat lai mat khau that bai: " \o ToString(r.status)>>
                \o (IF r.json
                    THEN handle_error_response(r.body, "dat lai mat khau")
                    ELSE <<>>))

\* login_cookie.parse_response
parse_response(r, operation) ==
    IF ~r.json
    THEN Result(FALSE, JNull, JNull,
                << "Response khong phai JSON. Status: " \o ToString(r.status),
                   "Response body: " \o RawText >>)
    ELSE IF r.status /= 200
    THEN Result(FALSE, JNull, JNull, handle_error_response(r.body, operation))
    ELSE Result(TRUE, JWhole, JNull, <<>>)

----------------------------------------------------------------------------
(* Part 2: the role-name map and the rule listings.                        *)

\* role ids the server knows, and the longest role or rule listing
MaxRoles == 2
MaxRules == 2

RoleIds == 1..MaxRoles

RoleNameOf(id) ==
    CASE id = 1 -> "admin"
      [] id = 2 -> "author"
      [] id = 3 -> "editor"
      [] OTHER -> "reader"

SeqsUpTo(S, n) == UNION { [1..k -> S] : k \in 0..n }

\* One entry of the role listing: has_id FALSE is an entry whose "id" is
\* absent or null (role.get("id") is None); name "" is a name that is
\* absent, null or empty (role.get("name") is falsy).
RoleEntries ==
    { [has_id |-> TRUE, id |-> i, name |-> RoleNameOf(i)] : i \in RoleIds }
    \cup { [has_id |-> TRUE, id |-> i, name |-> ""] : i \in RoleIds }
    \cup { [has_id |-> FALSE, id |-> 0, name |-> "admin"] }

\* responses to GET /api/roles
RoleListings ==
    { [net |-> "ok", status |-> st, json |-> TRUE,
       body |-> Body(e, JAbsent, d, JAbsent)] :
        st \in {200, 500},
        e \in {JAbsent, JStr("bad credentials")},
        d \in {JAbsent, JNull} \cup { JList(l) : l \in SeqsUpTo(RoleEntries, MaxRoles) } }
    \cup { [net |-> "ok", status |-> 200, json |-> FALSE, body |-> NoBody],
           [net |-> "conn_error", status |-> 0, json |-> FALSE, body |-> NoBody] }

\* A Python value that is None or a dict from role id to role name; a name
\* that is not bound yet is written as None too.
PyNone == [none |-> TRUE, m |-> <<>>]
PyMap(m) == [none |-> FALSE, m |-> m]
EmptyMap == <<>>

\* the map keyed by the position of the role in the listing
RoleMapOf_by_position(roles) ==
    LET kept == { i \in 1..Len(roles) : roles[i].has_id /\ roles[i].name /= "" }
    IN  [i \in kept |-> roles[i].name]

\* the loop of share.get_role_names_map: a later entry replaces an earlier
\* one with the same id
RoleMapOf(roles) ==
    LET kept == { i \in 1..Len(roles) : roles[i].has_id /\ roles[i].name /= "" }
        ids == { roles[i].id : i \in kept }
        last(id) == CHOOSE i \in kept :
                        /\ roles[i].id = id
                        /\ \A j \in kept : roles[j].id = id => j <= i
    IN  [id \in ids |-> roles[last(id)].name]

\* share.get_role_names_map: every exception gives the empty dict
get_role_names_map(r) ==
    IF r.net = "conn_error" THEN EmptyMap
    ELSE IF r.status >= 400 THEN EmptyMap          \* raise_for_status()
    ELSE IF ~r.json THEN EmptyMap
    ELSE IF ~InBody(r.body, "data") THEN EmptyMap
    ELSE IF r.body.data.k /= "list" THEN EmptyMap  \* for role in None
    ELSE RoleMapOf(r.body.data.o)

\* the maps a request for the role listing can come back with
RoleNameMaps == { get_role_names_map(r) : r \in RoleListings }

\* the rules the server lists
RuleShapes ==
    { [id |-> "1", type |-> "PUBLIC", fixed |-> TRUE, service_name |-> "blog",
       roles |-> <<>>] }
    \cup { [id |-> "7", type |-> "ALLOW", fixed |-> FALSE, service_name |-> "",
            roles |-> <<i>>] : i \in RoleIds }

\* responses to GET /api/rules and GET /api/rules/role/:id_name
RuleResponses ==
    { [net |-> "ok", status |-> 200, json |-> TRUE,
       body |-> Body(JAbsent, JAbsent, d, JAbsent)] :
        d \in {JAbsent, JNull, JObj(<<>>), JObj(<<Item("id", LStr("5"))>>)}
              \cup { JList(l) : l \in SeqsUpTo(RuleShapes, MaxRules) } }
    \cup { [net |-> "ok", status |-> st, json |-> TRUE,
            body |-> Body(JStr("bad credentials"), JAbsent, JAbsent, JAbsent)] :
            st \in {200, 401} }
    \cup { [net |-> "ok", status |-> st, json |-> FALSE, body |-> NoBody] : st \in {200, 500} }
    \cup { [net |-> "conn_error", status |-> 0, json |-> FALSE, body |-> NoBody] }

\* login_account catching SystemExit only
login_account_only_system_exit(r, account_type) ==
    IF account_type \notin {"super_admin", "admin"}
    THEN Result(FALSE, JNull, JStr("Account type khong hop le: " \o account_type), <<>>)
    ELSE LET res == login(r)
         IN  IF res.exc = "none" THEN Result(TRUE, res.payload, JNull, <<>>)
             ELSE IF res.exc = "SystemExit"
             THEN Result(FALSE, JNull, JStr("Khong the dang nhap voi " \o account_type), <<>>)
             ELSE res

\* share.login_account
login_account(r, account_type) ==
    IF account_type \notin {"super_admin", "admin"}
    THEN Result(FALSE, JNull,
                JStr("Account type khong hop le: " \o account_type
                     \o ". Chi ho tro 'super_admin' hoac 'admin'"), <<>>)
    ELSE LET email == IF account_type = "admin" THEN "admin@gmail.com"
                      ELSE "superadmin@gmail.com"
             res == login(r)
         IN  IF res.exc = "none" THEN Result(TRUE, res.payload, JNull, <<>>)
             ELSE IF res.exc = "SystemExit"
             THEN Result(FALSE, JNull,
                         JStr("Khong the dang nhap voi " \o account_type \o " (" \o email
                              \o "). Vui long kiem tra password."), <<>>)
             ELSE Result(FALSE, JNull,
                         JStr("Loi khong mong doi: " \o ExcText(res.exc, r.status)), <<>>)

\* list_rule_has_role.get_rules_by_role
get_rules_by_role(r, role_id_name) ==
    LET operation == "lay danh sach rules cho role '" \o role_id_name \o "'"
    IN  IF r.net = "conn_error"
        THEN Result(FALSE, JNull, JNull,
                    <<"Loi khi goi API: " \o ExcText("ConnectionError", r.status)>>)
        ELSE IF r.status /= 200
        THEN Result(FALSE, JNull, JNull,
                    <<"Request that bai voi status code: " \o ToString(r.status)>>
                    \o (IF r.json
                        THEN handle_error_response(r.body, operation)
                        ELSE <<"Response: " \o RawText>>))
        ELSE IF ~r.json
        THEN Result(FALSE, JNull, JNull,
                    <<"Loi khi goi API: " \o ExcText("JSONDecodeError", r.status)>>)
        ELSE IF InBody(r.body, "error")
        THEN Result(FALSE, JNull, JNull, handle_error_response(r.body, operation))
        ELSE IF ~InBody(r.body, "data")
        THEN Result(FALSE, JNull, JNull, <<"Response khong hop le:">>)
        ELSE LET got == r.body.data
             IN  IF got.k = "null"     \* len(None)
                 THEN Result(FALSE, JNull, JNull,
                             <<"Loi khong mong doi: " \o ExcText("TypeError", r.status)>>)
                 ELSE Result(TRUE, got, JNull, <<>>)

\* print_rules_list asks for the role listing only when the map it was
\* given is None; an empty map is used as it is
NeedsRoleListing_only_when_none(map) == map.none

\* print_rules_list asks for the role listing whatever map it was given
NeedsRoleListing_always(map) == TRUE

\* share.print_rules_list: `role_names_map is None or len(role_names_map) == 0`
NeedsRoleListing(map) == map.none \/ Cardinality(DOMAIN map.m) = 0

\* share.print_rules_list: role_names, one quoted entry for each role id
role_names(roles, m) ==
    [i \in 1..Len(roles) |->
        "\"" \o (IF roles[i] \in DOMAIN m THEN m[roles[i]] ELSE ToString(roles[i])) \o "\""]

\* role ids without a name in the map are left out
RECURSIVE RoleNamesStr_known_only(_, _)
RoleNamesStr_known_only(roles, m) ==
    IF Len(roles) = 0 THEN ""
    ELSE LET rest == RoleNamesStr_known_only(Tail(roles), m)
         IN  IF Head(roles) \in DOMAIN m
             THEN "\"" \o m[Head(roles)] \o "\""
                  \o (IF rest /= "" THEN ", " ELSE "") \o rest
             ELSE rest

\* role ids without a name in the map are shown as an empty name
RECURSIVE RoleNamesStr_blank_unknown(_, _)
RoleNamesStr_blank_unknown(roles, m) ==
    IF Len(roles) = 0 THEN ""
    ELSE "\"" \o (IF Head(roles) \in DOMAIN m THEN m[Head(roles)] ELSE "") \o "\""
         \o (IF Len(roles) > 1 THEN ", " ELSE "")
         \o RoleNamesStr_blank_unknown(Tail(roles), m)

\* share.print_rules_list: ", ".join of the quoted role names, the id itself
\* where the map has no name for it
RECURSIVE RoleNamesStr(_, _)
RoleNamesStr(roles, m) ==
    IF Len(roles) = 0 THEN ""
    ELSE LET role_id == Head(roles)
             shown_as == IF role_id \in DOMAIN m THEN m[role_id] ELSE ToString(role_id)
         IN  "\"" \o shown_as \o "\""
             \o (IF Len(roles) > 1 THEN ", " ELSE "")
             \o RoleNamesStr(Tail(roles), m)

\* the service name follows ` , ` whether or not `fixed` was printed
RuleLine_same_separator(rule, m) ==
    LET roles_str == RoleNamesStr(rule.roles, m)
        type_with_roles == IF roles_str /= "" THEN rule.type \o "(" \o roles_str \o ")"
                           ELSE rule.type
    IN  rule.id \o "  , " \o type_with_roles
        \o (IF rule.fixed THEN " , fixed" ELSE "")
        \o (IF rule.service_name /= "" THEN " , " \o rule.service_name ELSE "")

\* the segment of `fixed` is always there, empty when the rule is not fixed
RuleLine_trailing_separator(rule, m) ==
    LET roles_str == RoleNamesStr(rule.roles, m)
        type_with_roles == IF roles_str /= "" THEN rule.type \o "(" \o roles_str \o ")"
                           ELSE rule.type
    IN  rule.id \o "  , " \o type_with_roles
        \o " , " \o (IF rule.fixed THEN "fixed" ELSE "")
        \o (IF rule.service_name /= "" THEN ", " \o rule.service_name ELSE "")

\* the role list is always parenthesised
RuleLine_always_parenthesised(rule, m) ==
    LET roles_str == RoleNamesStr(rule.roles, m)
    IN  rule.id \o "  , " \o rule.type \o "(" \o roles_str \o ")"
        \o (IF rule.fixed THEN " , fixed" ELSE "")
        \o (IF rule.service_name /= ""
            THEN (IF rule.fixed THEN ", " ELSE " , ") \o rule.service_name
            ELSE "")

\* share.print_rules_list: the line of one rule
RuleLine(rule, m) ==
    LET roles_str == RoleNamesStr(rule.roles, m)
        type_with_roles == IF roles_str /= "" THEN rule.type \o "(" \o roles_str \o ")"
                           ELSE rule.type
    IN  rule.id \o "  , " \o type_with_roles
        \o (IF rule.fixed THEN " , fixed" ELSE "")
        \o (IF rule.service_name /= ""
            THEN (IF rule.fixed THEN ", " ELSE " , ") \o rule.service_name
            ELSE "")

RuleLines(rule_list, m) == [i \in 1..Len(rule_list) |-> RuleLine(rule_list[i], m)]

----------------------------------------------------------------------------
\* the steps of the two main functions after the role listing
FilterRulesSteps == 6
ListRuleHasRoleSteps == 4

NoResponse == [net |-> "none", status |-> 0, json |-> FALSE, body |-> NoBody]

\* no builder or renderer is called
NoArguments == [kind |-> "none"]
NothingShown == [op |-> "none", map |-> <<>>, names |-> <<>>, lines |-> <<>>, exc |-> "none"]
RenderIdle ==
    /\ given = NoArguments
    /\ shown = NothingShown

\* no function of part 4 runs
NoEnv == [k |-> "none"]
NotEnded == [kind |-> "none", ok |-> FALSE, val |-> JNull, msg |-> JNull, code |-> 0]
ScriptIdle ==
    /\ prog = "none"
    /\ ppc = "idle"
    /\ env = NoEnv
    /\ sent = <<>>
    /\ ret = NotEnded

\* no run of main is under way
MainIdle ==
    /\ script = "none"
    /\ mpc = "idle"
    /\ step = 1
    /\ admin_token = ""
    /\ role_names_map = PyNone
    /\ step_rules = JAbsent
    /\ used_map = PyNone
    /\ roles_requests = 0
    /\ refetches = 0
    /\ renders = 0
    /\ nonempty_renders = 0

Init ==
    /\ resp \in Responses
    /\ op = "none"
    /\ result = NoResult
    /\ pc = "ready"
    /\ MainIdle
    /\ RenderIdle
    /\ ScriptIdle

Call(name, res) ==
    /\ pc = "ready"
    /\ op' = name
    /\ result' = res
    /\ pc' = "done"
    /\ UNCHANGED resp
    /\ UNCHANGED mainvars
    /\ UNCHANGED rendervars
    /\ UNCHANGED scriptvars

Login == Call("login", login(resp))
LoginSafe == Call("login_safe", login_safe(resp))
CreateRole == Call("create_role", create_role(resp))
UpdateUserRoles == Call("update_user_roles", update_user_roles(resp))
GetProfile == Call("get_profile", get_profile(resp))
FilterRules == Call("filter_rules", filter_rules(resp))
DeleteUser == Call("delete_user", delete_user(resp))
RegisterUser == Call("register_user", register_user(resp))
ListUsersRegisterUser == Call("list_users.register_user", list_users_register_user(resp))
UpdateUserProfileRegisterUser ==
    Call("update_user_profile.register_user", update_user_profile_register_user(resp))
Logout == Call("logout", logout(resp))
ChangePassword == Call("change_password", change_password(resp))
ResetPasswordWithToken ==
    Call("reset_password_with_token", reset_password_with_token(resp))

\* parse_response and handle_error_response take what resp.json() / a
\* response object gave: they are applied to responses that arrived.
ParseResponse ==
    /\ resp.net = "ok"
    /\ Call("parse_response", parse_response(resp, "thao tac"))
HandleErrorResponse ==
    /\ resp.net = "ok"
    /\ resp.json
    /\ Call("handle_error_response",
            Result(FALSE, JNull, JNull, handle_error_response(resp.body, "thao tac")))

Next ==
    \/ Login
    \/ LoginSafe
    \/ CreateRole
    \/ UpdateUserRoles
    \/ GetProfile
    \/ FilterRules
    \/ DeleteUser
    \/ RegisterUser
    \/ ListUsersRegisterUser
    \/ UpdateUserProfileRegisterUser
    \/ Logout
    \/ ChangePassword
    \/ ResetPasswordWithToken
    \/ ParseResponse
    \/ HandleErrorResponse

Spec == Init /\ [][Next]_vars

----------------------------------------------------------------------------
(* Part 2: filter_rules.main and list_rule_has_role.main.                  *)

InitMain ==
    /\ resp = NoResponse
    /\ op = "none"
    /\ result = NoResult
    /\ pc = "main"
    /\ script \in {"filter_rules", "list_rule_has_role"}
    /\ mpc = "login"
    /\ step = 1
    /\ admin_token = ""
    /\ role_names_map = PyNone
    /\ step_rules = JAbsent
    /\ used_map = PyNone
    /\ roles_requests = 0
    /\ refetches = 0
    /\ renders = 0
    /\ nonempty_renders = 0
    /\ RenderIdle
    /\ ScriptIdle

Steps == IF script = "filter_rules" THEN FilterRulesSteps ELSE ListRuleHasRoleSteps

\* the title main passes to print_rules_list at each step
StepTitle ==
    IF script = "filter_rules"
    THEN CASE step = 1 -> "Tat ca cac rules"
           [] step = 2 -> "Rules co method GET"
           [] step = 3 -> "Rules co method PUT"
           [] step = 4 -> "Rules co method POST va path chua 'blog'"
           [] step = 5 -> "Rules co method GET va type PUBLIC"
           [] OTHER -> "Rules co method POST va fixed = true"
    ELSE CASE step = 1 -> "Danh sach rules cho role 'author'"
           [] step = 2 -> "Danh sach rules cho role ID = 4"
           [] step = 3 -> "Danh sach rules cho role 'reader'"
           [] OTHER -> "Danh sach rules cho role ID = 2"

\* the role list_rule_has_role.main asks the rules of at each step
StepRole ==
    CASE step = 1 -> "author"
      [] step = 2 -> "4"
      [] step = 3 -> "reader"
      [] OTHER -> "2"

\* main goes on to its next step, or to its closing lines
NextStep ==
    IF step < Steps
    THEN step' = step + 1 /\ mpc' = "filter"
    ELSE step' = step /\ mpc' = "done"

\* filter_rules.main: token, user = login(...); an exception ends the run
FilterRulesMainLogin ==
    /\ script = "filter_rules"
    /\ mpc = "login"
    /\ \E r \in Responses :
          LET res == login(r)
          IN  IF res.exc = "none"
              THEN admin_token' = res.payload.s /\ mpc' = "build_map"
              ELSE admin_token' = admin_token
                   /\ mpc' = (IF res.exc = "SystemExit" THEN "exit" ELSE "crashed")
    /\ UNCHANGED <<script, step, role_names_map, step_rules, used_map, roles_requests,
                   refetches, renders, nonempty_renders>>
    /\ UNCHANGED partvars
    /\ UNCHANGED rendervars
    /\ UNCHANGED scriptvars

\* list_rule_has_role.main: login_account("admin"), sys.exit(1) on a failure
ListRuleHasRoleMainLogin ==
    /\ script = "list_rule_has_role"
    /\ mpc = "login"
    /\ \E r \in Responses :
          LET res == login_account(r, "admin")
          IN  IF res.ok
              THEN admin_token' = res.payload.s /\ mpc' = "build_map"
              ELSE admin_token' = admin_token /\ mpc' = "exit"
    /\ UNCHANGED <<script, step, role_names_map, step_rules, used_map, roles_requests,
                   refetches, renders, nonempty_renders>>
    /\ UNCHANGED partvars
    /\ UNCHANGED rendervars
    /\ UNCHANGED scriptvars

\* both mains: role_names_map = get_role_names_map(token)
MainGetRoleNamesMap ==
    /\ mpc = "build_map"
    /\ \E r \in RoleListings :
          role_names_map' = PyMap(get_role_names_map(r))
    /\ roles_requests' = roles_requests + 1
    /\ mpc' = "filter"
    /\ UNCHANGED <<script, step, admin_token, step_rules, used_map, refetches, renders,
                   nonempty_renders>>
    /\ UNCHANGED partvars
    /\ UNCHANGED rendervars
    /\ UNCHANGED scriptvars

\* filter_rules.main: xxx_rules = filter_rules(token, ...)
FilterRulesMainFilter ==
    /\ script = "filter_rules"
    /\ mpc = "filter"
    /\ \E r \in RuleResponses :
          LET res == filter_rules(r)
          IN  step_rules' = (IF res.ok THEN res.payload ELSE JNull)
    /\ mpc' = "render"
    /\ UNCHANGED <<script, step, admin_token, role_names_map, used_map, roles_requests,
                   refetches, renders, nonempty_renders>>
    /\ UNCHANGED partvars
    /\ UNCHANGED rendervars
    /\ UNCHANGED scriptvars

\* list_rule_has_role.main: rules_xxx = get_rules_by_role(admin_token, ...)
ListRuleHasRoleMainGetRules ==
    /\ script = "list_rule_has_role"
    /\ mpc = "filter"
    /\ \E r \in RuleResponses :
          LET res == get_rules_by_role(r, StepRole)
          IN  step_rules' = (IF res.ok THEN res.payload ELSE JNull)
    /\ mpc' = "render"
    /\ UNCHANGED <<script, step, admin_token, role_names_map, used_map, roles_requests,
                   refetches, renders, nonempty_renders>>
    /\ UNCHANGED partvars
    /\ UNCHANGED rendervars
    /\ UNCHANGED scriptvars

\* what the last print_rules_list call wrote under its title: the notice
\* or one line for each rule
RenderedLines ==
    IF ~PyTruthy(step_rules) THEN <<"Khong co rule nao">>
    ELSE IF step_rules.k = "list" THEN RuleLines(step_rules.o, used_map.m)
    ELSE <<>>

\* print_rules_list updates the dict it was given with the listing it fetched
caller_map_after_update_in_place(map, local) == local

\* share.print_rules_list: the dict the caller passed, once the call is over.
\* `role_names_map = {}` and `role_names_map = get_role_names_map(token)` bind
\* the local name to another dict; nothing is written through the parameter.
caller_map_after(map, local) == map

\* share.print_rules_list(token, rules, title, role_names_map), the role
\* listing it may request included.  A rule list that is a non-empty dict is
\* iterated by its keys, and rule.get on a key raises.
print_rules_list(map) ==
    /\ renders' = renders + 1
    /\ IF ~PyTruthy(step_rules)
       THEN /\ NextStep
            /\ role_names_map' = caller_map_after(map, map)
            /\ UNCHANGED <<used_map, roles_requests, refetches, nonempty_renders>>
       ELSE /\ nonempty_renders' = nonempty_renders + 1
            /\ \E m \in (IF ~NeedsRoleListing(map) THEN {map.m}
                          ELSE IF admin_token /= "" THEN RoleNameMaps
                          ELSE {EmptyMap}) :
                  /\ used_map' = PyMap(m)
                  /\ role_names_map' = caller_map_after(map, PyMap(m))
                  /\ IF step_rules.k = "list"
                     THEN NextStep
                     ELSE step' = step /\ mpc' = "crashed"
            /\ IF NeedsRoleListing(map) /\ admin_token /= ""
               THEN /\ roles_requests' = roles_requests + 1
                    /\ refetches' = refetches + 1
               ELSE UNCHANGED <<roles_requests, refetches>>

\* filter_rules.main: print_rules_list(token, xxx_rules, title, role_names_map)
FilterRulesMainPrint ==
    /\ script = "filter_rules"
    /\ mpc = "render"
    /\ print_rules_list(role_names_map)
    /\ UNCHANGED <<script, admin_token, step_rules>>
    /\ UNCHANGED partvars
    /\ UNCHANGED rendervars
    /\ UNCHANGED scriptvars

\* list_rule_has_role.main: print_rules_list only `if rules_xxx is not None`
ListRuleHasRoleMainPrint ==
    /\ script = "list_rule_has_role"
    /\ mpc = "render"
    /\ IF step_rules.k /= "null"
       THEN print_rules_list(role_names_map)
       ELSE /\ NextStep
            /\ UNCHANGED <<role_names_map, used_map, roles_requests, refetches, renders,
                           nonempty_renders>>
    /\ UNCHANGED <<script, admin_token, step_rules>>
    /\ UNCHANGED partvars
    /\ UNCHANGED rendervars
    /\ UNCHANGED scriptvars

NextMain ==
    \/ FilterRulesMainLogin
    \/ ListRuleHasRoleMainLogin
    \/ MainGetRoleNamesMap
    \/ FilterRulesMainFilter
    \/ ListRuleHasRoleMainGetRules
    \/ FilterRulesMainPrint
    \/ ListRuleHasRoleMainPrint

SpecMain == InitMain /\ [][NextMain]_vars

----------------------------------------------------------------------------
(* Part 3: one call of a builder or renderer.                              *)

\* the longest role list of a rule
MaxRoleRefs == 2

\* the role ids a rule may name: those the server lists and one it does not
UnlistedRoleId == 99
RuleRoleIds == RoleIds \cup {UnlistedRoleId}

\* the maps get_role_names_map can build from listings of the known roles
RenderNames == {"author", "reader"}
RenderMaps == UNION { [S -> RenderNames] : S \in SUBSET RoleIds }

RenderRules ==
    { [id |-> i, type |-> ty, fixed |-> f, service_name |-> s, roles |-> rs] :
        i \in {"GET|/api/bar", "GET|/api/fixed"},
        ty \in {"ALLOW", "PUBLIC"},
        f \in BOOLEAN,
        s \in {"", "blog"},
        rs \in SeqsUpTo(RuleRoleIds, MaxRoleRefs) }

ListingArguments == { [kind |-> "listing", resp |-> r] : r \in RoleListings }
RuleArguments ==
    { [kind |-> "rule", rule |-> r, map |-> m] : r \in RenderRules, m \in RenderMaps }

\* map: the dict returned; names: the role names collected for the (last)
\* record; lines: the lines printed under the title, blank lines left out;
\* exc: the exception that left the function ("none" when it returned)
Shown(name, m, names, lines) ==
    [op |-> name, map |-> m, names |-> names, lines |-> lines, exc |-> "none"]
ShownRaise(name, names, lines, e) ==
    [op |-> name, map |-> <<>>, names |-> names, lines |-> lines, exc |-> e]

\* share.get_role_names_map called on one answer to GET /api/roles
GetRoleNamesMap ==
    /\ given.kind = "listing"
    /\ shown = NothingShown
    /\ shown' = Shown("get_role_names_map", get_role_names_map(given.resp), <<>>, <<>>)
    /\ UNCHANGED given
    /\ UNCHANGED <<partvars, mainvars, scriptvars>>

\* the body of the loop of share.print_rules_list on one rule
PrintRuleLine ==
    /\ given.kind = "rule"
    /\ shown = NothingShown
    /\ shown' = Shown("rule_line", given.map,
                      role_names(given.rule.roles, given.map),
                      <<RuleLine(given.rule, given.map)>>)
    /\ UNCHANGED given
    /\ UNCHANGED <<partvars, mainvars, scriptvars>>

\* ---- the list renderers ----

\* the longest list handed to a list renderer, and the longest role list
\* of a user
MaxRecords == 2
MaxUserRoles == 2

\* One element of user["roles"]: a plain string (k "str"), or an object
\* (k "obj") with the one key `key` whose value is the text s.
UserRoleItems ==
    { [k |-> "str", key |-> "", s |-> n] : n \in {"admin", ""} }
    \cup { [k |-> "obj", key |-> "name", s |-> n] : n \in {"editor", ""} }
    \cup { [k |-> "obj", key |-> "role_name", s |-> "author"],
           [k |-> "obj", key |-> "roleName", s |-> "reader"],
           [k |-> "obj", key |-> "id", s |-> "3"] }

\* user["roles"]: the key absent, null, or a list
UserRoles ==
    { [k |-> "absent", o |-> <<>>], [k |-> "null", o |-> <<>>] }
    \cup { [k |-> "list", o |-> l] : l \in SeqsUpTo(UserRoleItems, MaxUserRoles) }

UserIds == {"u1", "u2"}
User(i, rs) == [id |-> i, email |-> i \o "@gmail.com", roles |-> rs]

\* the argument lists: one user with any roles, or several users with few
UsersArguments ==
    { [kind |-> "users", users |-> <<User("u1", rs)>>] : rs \in UserRoles }
    \cup { [kind |-> "users", users |-> l] :
             l \in SeqsUpTo({ User(i, rs) : i \in UserIds,
                                 rs \in { [k |-> "absent", o |-> <<>>],
                                          [k |-> "null", o |-> <<>>],
                                          [k |-> "list",
                                           o |-> <<[k |-> "obj", key |-> "name",
                                                    s |-> "editor"]>>] } },
                            MaxRecords) }

RolesArguments ==
    { [kind |-> "roles", roles |-> l] :
        l \in SeqsUpTo({ [id |-> i, name |-> RoleNameOf(i), is_system |-> b] :
                            i \in RoleIds, b \in BOOLEAN }, MaxRecords) }

\* print_rules_list called without a token: it sends no request
RulesArguments ==
    { [kind |-> "rules", token |-> "", rules |-> l, map |-> m] :
        l \in SeqsUpTo({ r \in RenderRules :
                            r.type = "ALLOW" /\ r.service_name = "" /\ r.roles = <<>> },
                       MaxRecords),
        m \in RenderMaps }

\* ", ".join(names)
RECURSIVE Join(_)
Join(names) ==
    IF Len(names) = 0 THEN ""
    ELSE Head(names) \o (IF Len(names) > 1 THEN ", " ELSE "") \o Join(Tail(names))

\* list_users.print_users_list: role_names of one user
RECURSIVE list_users_role_names(_)
list_users_role_names(roles) ==
    IF Len(roles) = 0 THEN <<>>
    ELSE LET role == Head(roles)
             rest == list_users_role_names(Tail(roles))
         IN  IF role.k = "str" THEN <<role.s>> \o rest
             ELSE IF role.key \in {"name", "role_name", "roleName"} /\ role.s /= ""
             THEN <<role.s>> \o rest
             ELSE rest

\* list_users.print_users_list: the lines of the user at position idx
list_users_entry(idx, user) ==
    LET roles == IF user.roles.k = "list" THEN user.roles.o ELSE <<>>
        names == list_users_role_names(roles)
        roles_str == IF Len(names) > 0 THEN Join(names) ELSE "(khong co role)"
    IN  << ToString(idx) \o ". ID: " \o user.id,
           "   Email: " \o user.email,
           "   Full Name: N/A",
           "   Mobile: N/A",
           "   Address: N/A",
           "   Roles: " \o roles_str,
           "--------------------------------------------------------------------------------" >>

RECURSIVE list_users_entries(_, _)
list_users_entries(idx, users) ==
    IF Len(users) = 0 THEN <<>>
    ELSE list_users_entry(idx, Head(users)) \o list_users_entries(idx + 1, Tail(users))

\* list_users.print_users_list on a response {"data": {"users": users}}
\* without pagination fields
list_users_print_users_list(users) ==
    <<"Tong so: " \o ToString(Len(users)) \o " users (khong phan trang)">>
    \o (IF Len(users) = 0 THEN <<"Khong co user nao">>
        ELSE <<"--------------------------------------------------------------------------------">> \o list_users_entries(1, users))

\* list_user_has_role.print_users_list: roles_list of one user
RECURSIVE list_user_has_role_roles_list(_)
list_user_has_role_roles_list(roles) ==
    IF Len(roles) = 0 THEN <<>>
    ELSE LET role == Head(roles)
             rest == list_user_has_role_roles_list(Tail(roles))
         IN  IF role.k = "obj" /\ role.key = "name" /\ role.s /= ""
             THEN <<role.s>> \o rest
             ELSE rest

\* list_user_has_role.print_users_list: the line of the user at position idx
list_user_has_role_entry(idx, user) ==
    LET roles_list == list_user_has_role_roles_list(user.roles.o)
        roles_str == IF Len(roles_list) > 0 THEN Join(roles_list) ELSE "N/A"
    IN  ToString(idx) \o ". User ID: " \o user.id \o ", Email: " \o user.email
        \o ", Roles: " \o roles_str

\* list_user_has_role.print_users_list: the lines printed before it returns
\* or before `for role in None` raises
RECURSIVE list_user_has_role_entries(_, _)
list_user_has_role_entries(idx, users) ==
    IF Len(users) = 0 \/ Head(users).roles.k = "null" THEN <<>>
    ELSE <<list_user_has_role_entry(idx, Head(users))>>
         \o list_user_has_role_entries(idx + 1, Tail(users))

\* create_delete_role.print_roles_list: the line of the role at position idx
print_roles_list_entry(idx, role) ==
    ToString(idx) \o ". Role ID: " \o ToString(role.id) \o ", Name: " \o role.name
    \o ", Type: " \o (IF role.is_system THEN "System" ELSE "User")

\* the entries are numbered from 0
print_roles_list_from_zero(roles) ==
    IF Len(roles) = 0 THEN <<"Khong co role nao">>
    ELSE [idx \in 1..Len(roles) |-> print_roles_list_entry(idx - 1, roles[idx])]

\* create_delete_role.print_roles_list
print_roles_list(roles) ==
    IF Len(roles) = 0 THEN <<"Khong co role nao">>
    ELSE [idx \in 1..Len(roles) |-> print_roles_list_entry(idx, roles[idx])]

\* role_names / roles_list as the loop over the users leaves it
list_users_last_role_names(users) ==
    IF Len(users) = 0 THEN <<>>
    ELSE LET user == users[Len(users)]
         IN  list_users_role_names(IF user.roles.k = "list" THEN user.roles.o ELSE <<>>)
list_user_has_role_last_roles_list(users) ==
    IF Len(users) = 0 THEN <<>>
    ELSE list_user_has_role_roles_list(users[Len(users)].roles.o)

\* list_users.print_users_list
ListUsersPrintUsersList ==
    /\ given.kind = "users"
    /\ shown = NothingShown
    /\ shown' = Shown("list_users.print_users_list", <<>>,
                      list_users_last_role_names(given.users),
                      list_users_print_users_list(given.users))
    /\ UNCHANGED given
    /\ UNCHANGED <<partvars, mainvars, scriptvars>>

\* list_user_has_role.print_users_list
ListUserHasRolePrintUsersList ==
    /\ given.kind = "users"
    /\ shown = NothingShown
    /\ shown' =
         IF Len(given.users) = 0
         THEN Shown("list_user_has_role.print_users_list", <<>>, <<>>,
                    <<"Khong co user nao">>)
         ELSE IF \E i \in 1..Len(given.users) : given.users[i].roles.k = "null"
         THEN ShownRaise("list_user_has_role.print_users_list", <<>>,
                         list_user_has_role_entries(1, given.users), "TypeError")
         ELSE Shown("list_user_has_role.print_users_list", <<>>,
                    list_user_has_role_last_roles_list(given.users),
                    list_user_has_role_entries(1, given.users))
    /\ UNCHANGED given
    /\ UNCHANGED <<partvars, mainvars, scriptvars>>

\* create_delete_role.print_roles_list
PrintRolesList ==
    /\ given.kind = "roles"
    /\ shown = NothingShown
    /\ shown' = Shown("print_roles_list", <<>>, <<>>, print_roles_list(given.roles))
    /\ UNCHANGED given
    /\ UNCHANGED <<partvars, mainvars, scriptvars>>

\* share.print_rules_list(token, rules, title, role_names_map) with an empty
\* token: `if token:` keeps the empty map it has just put in place
PrintRulesList ==
    /\ given.kind = "rules"
    /\ shown = NothingShown
    /\ LET m == IF NeedsRoleListing(PyMap(given.map)) THEN EmptyMap ELSE given.map
       IN  shown' =
             IF ~PyTruthy(JList(given.rules))
             THEN Shown("print_rules_list", given.map, <<>>, <<"Khong co rule nao">>)
             ELSE Shown("print_rules_list", m, <<>>, RuleLines(given.rules, m))
    /\ UNCHANGED given
    /\ UNCHANGED <<partvars, mainvars, scriptvars>>

InitRender ==
    /\ given \in ListingArguments \cup RuleArguments \cup UsersArguments
                 \cup RolesArguments \cup RulesArguments
    /\ shown = NothingShown
    /\ resp = NoResponse
    /\ op = "none"
    /\ result = NoResult
    /\ pc = "render"
    /\ MainIdle
    /\ ScriptIdle

NextRender ==
    \/ GetRoleNamesMap
    \/ PrintRuleLine
    \/ ListUsersPrintUsersList
    \/ ListUserHasRolePrintUsersList
    \/ PrintRolesList
    \/ PrintRulesList

SpecRender == InitRender /\ [][NextRender]_vars

----------------------------------------------------------------------------
(* Part 4a: one HTTP call, from the moment requests sends it to the moment  *)
(* the calling function has returned.  A call site is named                 *)
(* "<file>:<function>".                                                     *)

\* the calls made with timeout=10
TimedSites ==
    { "change_pass.py:logout", "change_pass.py:change_password",
      "list_users.py:register_user", "login_cookie.py:test_login",
      "login_cookie.py:test_refresh", "login_cookie.py:test_logout",
      "login_cookie.py:test_access_token_expiry", "register_user.py:register_user",
      "reset_pass.py:request_password_reset", "reset_pass.py:reset_password_with_token",
      "reset_pass.py:change_password", "share.py:delete_user",
      "update_user_profile.py:register_user", "update_user_profile.py:logout",
      "update_user_profile.py:update_profile",
      "update_user_profile.py:update_profile_by_id" }

\* the calls made without a timeout argument: requests then waits for the
\* server without limit
UntimedSites ==
    { "add_role_to_user.py:assign_role_to_user", "create_delete_role.py:list_roles",
      "create_delete_role.py:delete_role", "create_role.py:main", "delete_role.py:main",
      "demo_role_cycle.py:create_role", "demo_role_cycle.py:add_role_to_user",
      "demo_role_cycle.py:remove_role_from_user", "demo_role_cycle.py:delete_role",
      "list_rule_has_role.py:get_rules_by_role", "list_user_has_role.py:create_role",
      "list_user_has_role.py:assign_role_to_user",
      "list_user_has_role.py:remove_role_from_user",
      "list_user_has_role.py:list_users_has_role", "list_user_has_role.py:delete_role",
      "list_users.py:list_users", "list_users.py:delete_role", "share.py:login",
      "share.py:get_role_id_by_name", "share.py:get_user_detail",
      "share.py:get_profile", "share.py:get_user_roles", "share.py:create_role",
      "share.py:update_user_roles", "share.py:filter_rules",
      "share.py:get_role_names_map", "update_user_roles.py:delete_role" }

CallSites == TimedSites \cup UntimedSites

\* what the server can answer, as the calling functions tell answers apart
AnswerKinds == {"success", "failing_status", "error_envelope", "not_json"}

CallEnv(site) == [k |-> "call", timeout |-> site \in TimedSites, outcome |-> "none"]

InitCall ==
    /\ prog \in CallSites
    /\ ppc = "call"
    /\ env = CallEnv(prog)
    /\ sent = <<>>
    /\ ret = NotEnded
    /\ resp = NoResponse
    /\ op = "none"
    /\ result = NoResult
    /\ pc = "call"
    /\ MainIdle
    /\ RenderIdle

\* requests.get/post/put/delete(...): the request leaves
SendRequest ==
    /\ ppc = "call"
    /\ sent' = Append(sent, prog)
    /\ ppc' = "waiting"
    /\ UNCHANGED <<prog, env, ret>>
    /\ UNCHANGED <<partvars, mainvars, rendervars>>

\* the server answers
ServerAnswers ==
    /\ ppc = "waiting"
    /\ \E a \in AnswerKinds : env' = [env EXCEPT !.outcome = a]
    /\ ppc' = "handle"
    /\ UNCHANGED <<prog, sent, ret>>
    /\ UNCHANGED <<partvars, mainvars, rendervars>>

\* the connection is refused or reset: requests raises ConnectionError
ConnectionFails ==
    /\ ppc = "waiting"
    /\ env' = [env EXCEPT !.outcome = "conn_error"]
    /\ ppc' = "handle"
    /\ UNCHANGED <<prog, sent, ret>>
    /\ UNCHANGED <<partvars, mainvars, rendervars>>

\* the 10 seconds of timeout=10 pass without an answer: requests raises
\* Timeout.  A call without the argument has no such step.
TimeoutElapses ==
    /\ ppc = "waiting"
    /\ env.timeout
    /\ env' = [env EXCEPT !.outcome = "timeout"]
    /\ ppc' = "handle"
    /\ UNCHANGED <<prog, sent, ret>>
    /\ UNCHANGED <<partvars, mainvars, rendervars>>

\* the function classifies what came back and ends: it returns (or, in
\* share.login and the two main functions that call requests themselves,
\* raises or exits); none of them calls requests again
EndOfCall ==
    /\ ppc = "handle"
    /\ ret' = [NotEnded EXCEPT !.kind = "ended", !.ok = env.outcome = "success"]
    /\ ppc' = "done"
    /\ UNCHANGED <<prog, env, sent>>
    /\ UNCHANGED <<partvars, mainvars, rendervars>>

NextCall ==
    \/ SendRequest
    \/ ServerAnswers
    \/ ConnectionFails
    \/ TimeoutElapses
    \/ EndOfCall

\* The interpreter goes on running and the timer of requests fires; the
\* server and the network owe nothing.
SpecCall ==
    /\ InitCall
    /\ [][NextCall]_vars
    /\ WF_vars(SendRequest)
    /\ WF_vars(TimeoutElapses)
    /\ WF_vars(EndOfCall)

----------------------------------------------------------------------------
(* Part 4b: one invocation of a function, or one run of a script's main,    *)
(* with the requests it sends.  Every step of a function that sends a       *)
(* request takes the answer from what the server can send.                  *)

\* how a function ends
Returns(ok, val, msg) ==
    [kind |-> "return", ok |-> ok, val |-> val, msg |-> msg, code |-> 0]
Exits(code) ==
    [kind |-> "exit", ok |-> FALSE, val |-> JNull, msg |-> JNull, code |-> code]
Raises(e) ==
    [kind |-> "raise", ok |-> FALSE, val |-> JNull, msg |-> JStr(e), code |-> 1]
EndedAs(res) ==
    IF res.exc = "none" THEN Returns(res.ok, res.payload, res.msg)
    ELSE IF res.exc = "SystemExit" THEN Exits(1)
    ELSE Raises(res.exc)

\* ---- share.login_safe, share.login_account ----

AccountTypes == {"super_admin", "admin", "editor"}
LoginPrograms ==
    { [prog |-> "login_safe", env |-> [k |-> "login", account_type |-> ""]] }
    \cup { [prog |-> "login_account", env |-> [k |-> "login", account_type |-> a]] :
             a \in AccountTypes }

\* share.login_safe(email, password)
LoginSafeCall ==
    /\ prog = "login_safe"
    /\ ppc = "start"
    /\ \E r \in Responses : ret' = EndedAs(login_safe(r))
    /\ sent' = Append(sent, "POST /api/auth/login")
    /\ ppc' = "done"
    /\ UNCHANGED <<prog, env>>
    /\ UNCHANGED <<partvars, mainvars, rendervars>>

\* share.login_account(account_type): login is called only past the
\* `else: return False, None, ...` of the account types
LoginAccountCall ==
    /\ prog = "login_account"
    /\ ppc = "start"
    /\ IF env.account_type \in {"super_admin", "admin"}
       THEN /\ \E r \in Responses : ret' = EndedAs(login_account(r, env.account_type))
            /\ sent' = Append(sent, "POST /api/auth/login")
       ELSE /\ ret' = EndedAs(login_account(NoResponse, env.account_type))
            /\ sent' = sent
    /\ ppc' = "done"
    /\ UNCHANGED <<prog, env>>
    /\ UNCHANGED <<partvars, mainvars, rendervars>>


\* ---- share.get_role_id_by_name ----

\* an Optional[int]: None or a role id
NoId == [none |-> TRUE, id |-> 0]
SomeId(i) == [none |-> FALSE, id |-> i]

\* what GET /api/roles can answer to a lookup of role_name: the role listed
\* with an id, listed without one, not listed, and the failures
LookupListings(role_name) ==
    { [net |-> "ok", status |-> 200, json |-> TRUE,
       body |-> Body(JAbsent, JAbsent, JList(l), JAbsent)] :
        l \in { <<>>,
                <<[has_id |-> TRUE, id |-> 1, name |-> "admin_" \o role_name]>>,
                <<[has_id |-> TRUE, id |-> 1, name |-> "admin_" \o role_name],
                  [has_id |-> TRUE, id |-> 100, name |-> role_name]>>,
                <<[has_id |-> FALSE, id |-> 0, name |-> role_name],
                  [has_id |-> TRUE, id |-> 100, name |-> role_name]>> } }
    \cup { [net |-> "ok", status |-> 200, json |-> TRUE,
            body |-> Body(JAbsent, JAbsent, d, JAbsent)] : d \in {JAbsent, JNull} }
    \cup { [net |-> "ok", status |-> 401, json |-> TRUE,
            body |-> Body(JStr("bad credentials"), JAbsent, JAbsent, JAbsent)],
           [net |-> "ok", status |-> 200, json |-> FALSE, body |-> NoBody],
           [net |-> "conn_error", status |-> 0, json |-> FALSE, body |-> NoBody] }

\* the first role of the listing that has the name
FirstNamed(roles, role_name) ==
    CHOOSE i \in 1..Len(roles) :
        /\ roles[i].name = role_name
        /\ \A j \in 1..(i - 1) : roles[j].name /= role_name

\* get_role_id_by_name returning the id of the last role of that name
get_role_id_by_name_last_match(r, role_name) ==
    IF r.net = "conn_error" \/ r.status >= 400 \/ ~r.json THEN NoId
    ELSE IF ~InBody(r.body, "data") \/ r.body.data.k /= "list" THEN NoId
    ELSE LET roles == r.body.data.o
             named == { i \in 1..Len(roles) : roles[i].name = role_name }
         IN  IF named = {} THEN NoId
             ELSE LET i == CHOOSE i \in named : \A j \in named : j <= i
                  IN  IF roles[i].has_id THEN SomeId(roles[i].id) ELSE NoId

\* share.get_role_id_by_name: every exception gives None; the id of the
\* first role with the name, which is None when that role has no id
get_role_id_by_name(r, role_name) ==
    IF r.net = "conn_error" THEN NoId
    ELSE IF r.status >= 400 THEN NoId               \* raise_for_status()
    ELSE IF ~r.json THEN NoId
    ELSE IF ~InBody(r.body, "data") THEN NoId
    ELSE IF r.body.data.k /= "list" THEN NoId       \* for role in None
    ELSE LET roles == r.body.data.o
         IN  IF \E i \in 1..Len(roles) : roles[i].name = role_name
             THEN LET role == roles[FirstNamed(roles, role_name)]
                  IN  IF role.has_id THEN SomeId(role.id) ELSE NoId
             ELSE NoId

\* ---- add_role_to_user.py ----

\* assign_role_to_user comparing the status only
assign_role_to_user_status_only(r, expected_success) ==
    IF r.net = "conn_error" \/ ~r.json THEN FALSE
    ELSE (r.status < 400) = expected_success

\* add_role_to_user.assign_role_to_user: the success flag it returns; an
\* exception of requests or of resp.json() gives False
assign_role_to_user(r, expected_success) ==
    IF r.net = "conn_error" THEN FALSE
    ELSE IF ~r.json THEN FALSE
    ELSE LET is_success == r.status < 400 /\ ~InBody(r.body, "error")
         IN  IF expected_success THEN is_success ELSE ~is_success

\* assign_role_to_user(token, user_id, role_id, expected_success) called once
AssignRoleToUserCall ==
    /\ prog = "assign_role_to_user"
    /\ ppc = "start"
    /\ \E r \in Responses :
          /\ resp' = r
          /\ ret' = Returns(assign_role_to_user(r, env.expected_success), JNull, JNull)
    /\ sent' = Append(sent, "POST /api/users/:user_id/roles/:role_id")
    /\ ppc' = "done"
    /\ UNCHANGED <<prog, env>>
    /\ UNCHANGED <<op, result, pc>>
    /\ UNCHANGED <<mainvars, rendervars>>

\* main: the statements that can end the run, in order, and what each
\* assign_role_to_user call expects
AddRoleMainPlan ==
    << "login_admin", "lookup", "assign", "detail", "assign", "lookup", "assign",
       "lookup", "assign", "login_editor", "lookup", "assign", "summary" >>
AddRoleMainExpected == <<FALSE, FALSE, FALSE, TRUE, FALSE>>
AddRoleMainRoles == <<"super_admin", "admin", "editor", "reader">>

AddRoleMainAt(kind) ==
    /\ prog = "add_role_to_user.main"
    /\ ppc = "run"
    /\ AddRoleMainPlan[env.at] = kind

\* the run goes on to its next statement, or ends
AddRoleMainGoesOn(e) ==
    /\ env' = [e EXCEPT !.at = e.at + 1]
    /\ ret' = ret
    /\ ppc' = ppc
AddRoleMainEnds(how) ==
    /\ env' = env
    /\ ret' = how
    /\ ppc' = "done"

\* admin_token, admin_user = login(...); `if not admin_user_id: sys.exit(1)`.
\* The login of the editor has no such check.
AddRoleMainLogin ==
    /\ AddRoleMainAt("login_admin") \/ AddRoleMainAt("login_editor")
    /\ \E r \in Responses, has_id \in BOOLEAN :
          LET res == login(r)
          IN  IF res.exc /= "none" THEN AddRoleMainEnds(EndedAs(res))
              ELSE IF AddRoleMainPlan[env.at] = "login_admin" /\ ~has_id
              THEN AddRoleMainEnds(Exits(1))
              ELSE AddRoleMainGoesOn(env)
    /\ sent' = Append(sent, "POST /api/auth/login")
    /\ UNCHANGED prog
    /\ UNCHANGED <<partvars, mainvars, rendervars>>

\* xxx_role_id = get_role_id_by_name(token, name); `if not xxx_role_id`
AddRoleMainLookup ==
    /\ AddRoleMainAt("lookup")
    /\ \E r \in LookupListings(AddRoleMainRoles[env.lookups + 1]) :
          LET role_id == get_role_id_by_name(r, AddRoleMainRoles[env.lookups + 1])
          IN  IF role_id.none \/ role_id.id = 0
              THEN AddRoleMainEnds(Exits(1))
              ELSE AddRoleMainGoesOn([env EXCEPT !.lookups = env.lookups + 1])
    /\ sent' = Append(sent, "GET /api/roles")
    /\ UNCHANGED prog
    /\ UNCHANGED <<partvars, mainvars, rendervars>>

\* user_detail = get_user_detail(admin_token, bob_email) and the two checks
\* on it; a `user` that is not a dict raises AttributeError
AddRoleMainDetail ==
    /\ AddRoleMainAt("detail")
    /\ \E detail \in {"none", "no_user", "user_not_dict", "user_without_id", "user"} :
          IF detail = "user" THEN AddRoleMainGoesOn(env)
          ELSE IF detail = "user_not_dict" THEN AddRoleMainEnds(Raises("AttributeError"))
          ELSE AddRoleMainEnds(Exits(1))
    /\ sent' = Append(sent, "GET /api/auth/profile/:identifier")
    /\ UNCHANGED prog
    /\ UNCHANGED <<partvars, mainvars, rendervars>>

\* testN_success, _ = assign_role_to_user(token, user_id, role_id, expected)
AddRoleMainAssign ==
    /\ AddRoleMainAt("assign")
    /\ \E r \in Responses :
          LET n == Len(env.tests) + 1
          IN  AddRoleMainGoesOn(
                  [env EXCEPT !.tests = Append(env.tests,
                                               assign_role_to_user(r, AddRoleMainExpected[n]))])
    /\ sent' = Append(sent, "POST /api/users/:user_id/roles/:role_id")
    /\ UNCHANGED prog
    /\ UNCHANGED <<partvars, mainvars, rendervars>>

\* passed_tests = sum([...]); sys.exit(0) when it equals total_tests
AddRoleMainSummary ==
    /\ AddRoleMainAt("summary")
    /\ LET passed_tests == Cardinality({ i \in 1..Len(env.tests) : env.tests[i] })
       IN  AddRoleMainEnds(IF passed_tests = 5 THEN Exits(0) ELSE Exits(1))
    /\ sent' = sent
    /\ UNCHANGED prog
    /\ UNCHANGED <<partvars, mainvars, rendervars>>

AddRolePrograms ==
    { [prog |-> "assign_role_to_user", env |-> [k |-> "assign", expected_success |-> b]] :
        b \in BOOLEAN }
    \cup { [prog |-> "add_role_to_user.main",
             env |-> [k |-> "main", at |-> 1, lookups |-> 0, tests |-> <<>>]] }

\* ---- share.confirm_reset ----

\* str.lower() and str.strip() on the letters and blanks of the answers
LowerChar(c) ==
    CASE c = "Y" -> "y" [] c = "E" -> "e" [] c = "S" -> "s"
      [] c = "N" -> "n" [] c = "O" -> "o" [] OTHER -> c
RECURSIVE lower(_)
lower(s) == IF s = "" THEN "" ELSE LowerChar(SubSeq(s, 1, 1)) \o lower(SubSeq(s, 2, Len(s)))
RECURSIVE strip(_)
strip(s) ==
    IF s = "" THEN ""
    ELSE IF SubSeq(s, 1, 1) = " " THEN strip(SubSeq(s, 2, Len(s)))
    ELSE IF SubSeq(s, Len(s), Len(s)) = " " THEN strip(SubSeq(s, 1, Len(s) - 1))
    ELSE s

\* what one call of input() gives: a line, or Ctrl-C, or the end of stdin
Line(text) == [kind |-> "line", text |-> text]
ConfirmInputs ==
    { Line(x) : x \in {"y", "yes", "n", "no", " Y", "YES ", "No", "", "ok", "yess"} }
    \cup { [kind |-> "KeyboardInterrupt", text |-> ""], [kind |-> "EOFError", text |-> ""] }

\* confirm_reset taking the end of stdin for a confirmation
confirm_reset_eof_confirms(inp) ==
    IF inp.kind = "KeyboardInterrupt" THEN "False"
    ELSE IF inp.kind = "EOFError" THEN "True"
    ELSE LET response == lower(strip(inp.text))
         IN  IF response \in {"y", "yes"} THEN "True"
             ELSE IF response \in {"n", "no"} THEN "False"
             ELSE "again"

\* share.confirm_reset, one turn of its `while True`: it returns True or
\* False, or asks again
confirm_reset(inp) ==
    IF inp.kind = "KeyboardInterrupt" THEN "False"
    ELSE IF inp.kind = "EOFError" THEN "False"
    ELSE LET response == lower(strip(inp.text))
         IN  IF response \in {"y", "yes"} THEN "True"
             ELSE IF response \in {"n", "no"} THEN "False"
             ELSE "again"

\* ---- register_user.py main ----

\* the length of test_users (10 in the source) and the ids a registration
\* can return
MaxTestUsers == 2
RegisteredIds == {"u1", "u2", "u3"}

RegisterMainAt(phase) ==
    /\ prog = "register_user.main"
    /\ ppc = "run"
    /\ env.phase = phase

\* one turn of `for idx, user_data in enumerate(test_users, 1)`:
\* register_user, the id kept when there is one, then login_safe
RegisterMainRegister ==
    /\ RegisterMainAt("register")
    /\ \E r \in Responses, has_id \in BOOLEAN, user_id \in RegisteredIds :
          LET register_success == register_user(r).ok
              ids == IF register_success /\ has_id
                     THEN Append(env.registered_user_ids, user_id)
                     ELSE env.registered_user_ids
              last == env.at = MaxTestUsers
          IN  /\ env' = [env EXCEPT !.at = IF last THEN env.at ELSE env.at + 1,
                                     !.registered_user_ids = ids,
                                     !.phase = IF ~last THEN "register"
                                               ELSE IF ids /= <<>> THEN "login"
                                               ELSE "end"]
              /\ sent' = IF register_success
                         THEN sent \o <<"POST /api/auth/register", "POST /api/auth/login">>
                         ELSE Append(sent, "POST /api/auth/register")
    /\ UNCHANGED <<prog, ppc, ret>>
    /\ UNCHANGED <<partvars, mainvars, rendervars>>

\* `if registered_user_ids:` login_account("super_admin"), then
\* display_registered_users, which reads every user and deletes none
RegisterMainLogin ==
    /\ RegisterMainAt("login")
    /\ \E r \in Responses :
          LET login_success == login_account(r, "super_admin").ok
          IN  /\ env' = [env EXCEPT !.login_success = login_success,
                                     !.phase = IF login_success THEN "confirm" ELSE "end"]
              /\ sent' = IF login_success
                         THEN Append(sent, "POST /api/auth/login super_admin")
                              \o [i \in 1..Len(env.registered_user_ids) |->
                                     "GET /api/auth/profile/" \o env.registered_user_ids[i]]
                         ELSE Append(sent, "POST /api/auth/login super_admin")
    /\ UNCHANGED <<prog, ppc, ret>>
    /\ UNCHANGED <<partvars, mainvars, rendervars>>

\* `if confirm_reset(...)`: one answer read from the terminal
RegisterMainConfirm ==
    /\ RegisterMainAt("confirm")
    /\ \E inp \in ConfirmInputs :
          LET confirmed == confirm_reset(inp)
          IN  env' = [env EXCEPT !.answer = inp,
                                 !.confirmed = confirmed,
                                 !.phase = IF confirmed = "True" THEN "delete"
                                           ELSE IF confirmed = "False" THEN "end"
                                           ELSE "confirm"]
    /\ UNCHANGED <<prog, ppc, ret, sent>>
    /\ UNCHANGED <<partvars, mainvars, rendervars>>

\* one turn of `for user_id in registered_user_ids: delete_user(...)`
RegisterMainDelete ==
    /\ RegisterMainAt("delete")
    /\ \E r \in Responses :
          LET n == env.deleted + 1
          IN  /\ env' = [env EXCEPT !.deleted = n,
                                     !.delete_success_count =
                                         IF delete_user(r).ok THEN @ + 1 ELSE @,
                                     !.phase = IF n = Len(env.registered_user_ids)
                                               THEN "end" ELSE "delete"]
              /\ sent' = Append(sent, "DELETE /api/auth/profile/"
                                          \o env.registered_user_ids[n])
    /\ UNCHANGED <<prog, ppc, ret>>
    /\ UNCHANGED <<partvars, mainvars, rendervars>>

\* main returns
RegisterMainEnd ==
    /\ RegisterMainAt("end")
    /\ ret' = Returns(TRUE, JNull, JNull)
    /\ ppc' = "done"
    /\ UNCHANGED <<prog, env, sent>>
    /\ UNCHANGED <<partvars, mainvars, rendervars>>

RegisterPrograms ==
    { [prog |-> "register_user.main",
       env |-> [k |-> "main", phase |-> "register", at |-> 1,
                registered_user_ids |-> <<>>, login_success |-> FALSE,
                answer |-> Line(""), confirmed |-> "unasked",
                deleted |-> 0, delete_success_count |-> 0]] }

\* ---- delete_role of create_delete_role.py, list_users.py, update_user_roles.py ----

\* what delete_role returns once DELETE /api/roles/:id was answered, in
\* create_delete_role.py and update_user_roles.py
delete_role_answer(r) ==
    IF r.net = "conn_error" \/ ~r.json THEN FALSE
    ELSE IF r.status >= 400 \/ InBody(r.body, "error") THEN FALSE
    ELSE IF InBody(r.body, "message") THEN TRUE
    ELSE 200 <= r.status /\ r.status < 300

\* the same in list_users.py, which does not look for `message`
list_users_delete_role_answer(r) ==
    IF r.net = "conn_error" \/ ~r.json THEN FALSE
    ELSE ~(r.status >= 400 \/ InBody(r.body, "error"))

DeleteRoleAt(file) ==
    /\ prog = file \o ".delete_role"
    /\ ppc = "start"

\* the lookup by name, then the DELETE when an id came back: what the call
\* leaves in its variables, with ok the value delete_role returns after DELETE
DeleteRoleByName(l, ok) ==
    LET role_id == get_role_id_by_name(l, env.role_name.s)
    IN  /\ resp' = l
        /\ env' = [env EXCEPT !.role_id = role_id]
        /\ sent' = IF role_id.none THEN Append(sent, "GET /api/roles")
                   ELSE sent \o <<"GET /api/roles",
                                  "DELETE /api/roles/" \o ToString(role_id.id)>>
        /\ ret' = Returns(~role_id.none /\ ok, JNull, JNull)

\* create_delete_role.delete_role(token, role_id=None, role_name=None)
CreateDeleteRoleDeleteRole ==
    /\ DeleteRoleAt("create_delete_role")
    /\ \E l \in LookupListings("tiger"), r \in Responses :
          IF env.role_id.none
          THEN IF env.role_name = JNull
               THEN /\ ret' = Returns(FALSE, JNull, JNull)
                    /\ UNCHANGED <<resp, env, sent>>
               ELSE DeleteRoleByName(l, delete_role_answer(r))
          ELSE /\ sent' = Append(sent, "DELETE /api/roles/" \o ToString(env.role_id.id))
               /\ ret' = Returns(delete_role_answer(r), JNull, JNull)
               /\ UNCHANGED <<resp, env>>
    /\ ppc' = "done"
    /\ UNCHANGED prog
    /\ UNCHANGED <<op, result, pc>>
    /\ UNCHANGED <<mainvars, rendervars>>

\* list_users.delete_role(token, role_name)
ListUsersDeleteRole ==
    /\ DeleteRoleAt("list_users")
    /\ \E l \in LookupListings("tiger"), r \in Responses :
          DeleteRoleByName(l, list_users_delete_role_answer(r))
    /\ ppc' = "done"
    /\ UNCHANGED prog
    /\ UNCHANGED <<op, result, pc>>
    /\ UNCHANGED <<mainvars, rendervars>>

\* update_user_roles.delete_role(token, role_name)
UpdateUserRolesDeleteRole ==
    /\ DeleteRoleAt("update_user_roles")
    /\ \E l \in LookupListings("tiger"), r \in Responses :
          DeleteRoleByName(l, delete_role_answer(r))
    /\ ppc' = "done"
    /\ UNCHANGED prog
    /\ UNCHANGED <<op, result, pc>>
    /\ UNCHANGED <<mainvars, rendervars>>

DeleteRolePrograms ==
    { [prog |-> "create_delete_role.delete_role",
       env |-> [k |-> "delete_role", role_id |-> i, role_name |-> n]] :
        i \in {NoId, SomeId(7)}, n \in {JNull, JStr("tiger")} }
    \cup { [prog |-> f \o ".delete_role",
             env |-> [k |-> "delete_role", role_id |-> NoId, role_name |-> JStr("tiger")]] :
            f \in {"list_users", "update_user_roles"} }

\* ---- login_cookie.py ----

\* the refresh_token cookie of the session: "" when the jar has none
Cookies == {"", "rt1", "rt2"}

\* the jar once the exchange is over: a response may set, rotate or clear
\* the cookie, a failed connection leaves the jar as it was
CookiesAfter(r, cookie) == IF r.net = "conn_error" THEN {cookie} ELSE Cookies

\* what test_login, test_refresh and test_logout share: the body was parsed,
\* and `data` holds a token
ParsedWithToken(r) ==
    /\ r.net = "ok"
    /\ parse_response(r, "").ok
    /\ InBody(r.body, "data")
    /\ r.body.data.k = "obj"                       \* .get on a non-dict raises
    /\ PyTruthy(DictGet(r.body.data, "token", JNull))

\* login_cookie.test_login: success needs the cookie in the jar as well
login_cookie_test_login(r, cookie_after) == ParsedWithToken(r) /\ cookie_after /= ""

\* login_cookie.test_logout
login_cookie_test_logout(r) == r.net = "ok" /\ parse_response(r, "logout").ok

\* test_refresh sending its request whatever the jar holds
test_refresh_without_cookie_check(cookie, r) ==
    [requests |-> <<"POST /api/auth/refresh">>,
     ok |-> ParsedWithToken(r),
     token |-> IF ParsedWithToken(r) THEN DictGet(r.body.data, "token", JNull) ELSE JNull]

\* login_cookie.test_refresh: the requests it sends and the pair it returns
test_refresh(cookie, r) ==
    IF cookie = ""
    THEN [requests |-> <<>>, ok |-> FALSE, token |-> JNull]
    ELSE [requests |-> <<"POST /api/auth/refresh">>,
          ok |-> ParsedWithToken(r),
          token |-> IF ParsedWithToken(r) THEN DictGet(r.body.data, "token", JNull)
                    ELSE JNull]

\* test_refresh(session) called once
TestRefreshCall ==
    /\ prog = "login_cookie.test_refresh"
    /\ ppc = "start"
    /\ \E r \in Responses :
          LET res == test_refresh(env.cookie, r)
          IN  /\ sent' = sent \o res.requests
              /\ ret' = Returns(res.ok, res.token, JNull)
              /\ IF res.requests = <<>>
                 THEN UNCHANGED <<resp, env>>
                 ELSE /\ resp' = r
                      /\ \E c \in CookiesAfter(r, env.cookie) :
                            env' = [env EXCEPT !.cookie = c]
    /\ ppc' = "done"
    /\ UNCHANGED prog
    /\ UNCHANGED <<op, result, pc>>
    /\ UNCHANGED <<mainvars, rendervars>>

\* the answers main is run against: a token under 200 (alone, and next to an
\* `error` key), a token under 201, `data` without token, null or absent, a
\* refusal, a body that is not JSON, no answer
CookieAnswers ==
    { [net |-> "ok", status |-> st, json |-> TRUE, body |-> Body(e, JAbsent, d, JAbsent)] :
        st \in {200, 201}, e \in {JAbsent, JStr("bad credentials")},
        d \in { JObj(<<Item("token", LStr("tk")), Item("user", LObj)>>) } }
    \cup { [net |-> "ok", status |-> 200, json |-> TRUE,
            body |-> Body(JAbsent, JAbsent, d, JAbsent)] :
            d \in {JAbsent, JNull, JObj(<<>>)} }
    \cup { [net |-> "ok", status |-> 401, json |-> TRUE,
            body |-> Body(JStr("bad credentials"), JAbsent, JAbsent, JAbsent)],
           [net |-> "ok", status |-> 200, json |-> FALSE, body |-> NoBody],
           [net |-> "conn_error", status |-> 0, json |-> FALSE, body |-> NoBody] }

\* main: its tests in order
CookieMainPlan ==
    << "login", "refresh", "refresh", "logout", "refresh_after_logout", "login", "expiry" >>

CookieMainAt(kinds) ==
    /\ prog = "login_cookie.main"
    /\ ppc = "run"
    /\ CookieMainPlan[env.at] \in kinds

\* tests 1 and 6: test_login; main exits with 1 when the first one fails
CookieMainLogin ==
    /\ CookieMainAt({"login"})
    /\ \E r \in CookieAnswers :
          \E c \in CookiesAfter(r, env.cookie) :
              LET login_success == login_cookie_test_login(r, c)
              IN  /\ env' = [env EXCEPT !.cookie = c,
                                         !.results = Append(@, login_success),
                                         !.at = @ + 1]
                  /\ IF env.at = 1 /\ ~login_success
                     THEN ret' = Exits(1) /\ ppc' = "done"
                     ELSE UNCHANGED <<ret, ppc>>
    /\ sent' = Append(sent, "POST /api/auth/login")
    /\ UNCHANGED prog
    /\ UNCHANGED <<partvars, mainvars, rendervars>>

\* tests 2, 3 and 5: test_refresh; test 5 is passed when it fails
CookieMainRefresh ==
    /\ CookieMainAt({"refresh", "refresh_after_logout"})
    /\ \E r \in CookieAnswers :
          LET res == test_refresh(env.cookie, r)
              passed == IF CookieMainPlan[env.at] = "refresh_after_logout"
                        THEN ~res.ok ELSE res.ok
          IN  /\ sent' = sent \o res.requests
              /\ IF res.requests = <<>>
                 THEN /\ resp' = resp
                      /\ env' = [env EXCEPT !.results = Append(@, passed), !.at = @ + 1]
                 ELSE /\ resp' = r
                      /\ \E c \in CookiesAfter(r, env.cookie) :
                            env' = [env EXCEPT !.cookie = c,
                                               !.results = Append(@, passed),
                                               !.at = @ + 1]
    /\ UNCHANGED <<prog, ppc, ret>>
    /\ UNCHANGED <<op, result, pc>>
    /\ UNCHANGED <<mainvars, rendervars>>

\* test 4: test_logout, which sends its request with or without cookie
CookieMainLogout ==
    /\ CookieMainAt({"logout"})
    /\ \E r \in CookieAnswers :
          \E c \in CookiesAfter(r, env.cookie) :
              env' = [env EXCEPT !.cookie = c,
                                 !.results = Append(@, login_cookie_test_logout(r)),
                                 !.at = @ + 1]
    /\ sent' = Append(sent, "POST /api/auth/logout")
    /\ UNCHANGED <<prog, ppc, ret>>
    /\ UNCHANGED <<partvars, mainvars, rendervars>>

\* test 7, run when the operator answers y, then the summary; main returns
CookieMainExpiry ==
    /\ CookieMainAt({"expiry"})
    /\ \E user_input \in {"y", "n", ""} :
          sent' = IF user_input = "y" THEN Append(sent, "GET /api/auth/profile") ELSE sent
    /\ ret' = Returns(\A i \in 1..Len(env.results) : env.results[i], JNull, JNull)
    /\ ppc' = "done"
    /\ UNCHANGED <<prog, env>>
    /\ UNCHANGED <<partvars, mainvars, rendervars>>

CookiePrograms ==
    { [prog |-> "login_cookie.test_refresh", env |-> [k |-> "session", cookie |-> c]] :
        c \in Cookies }
    \cup { [prog |-> "login_cookie.main",
             env |-> [k |-> "main", at |-> 1, cookie |-> "", results |-> <<>>]] }

\* ---- update_user_roles.verify_roles ----

\* the longest list of roles, and of expected names
MaxVerifyRoles == 2

\* one element of user_detail["roles"]: a dict whose role_name is a name, the
\* empty text, null, or absent
VerifyRoleItems ==
    { [role_name |-> n] : n \in {JStr("author"), JStr("reader"), JStr(""), JNull, JAbsent} }

\* user_detail: None, the empty dict, or a dict whose `roles` is absent,
\* null or a list
UserDetails ==
    { [k |-> "none", roles |-> [k |-> "absent", o |-> <<>>]],
      [k |-> "empty", roles |-> [k |-> "absent", o |-> <<>>]],
      [k |-> "dict", roles |-> [k |-> "absent", o |-> <<>>]],
      [k |-> "dict", roles |-> [k |-> "null", o |-> <<>>]] }
    \cup { [k |-> "dict", roles |-> [k |-> "list", o |-> l]] :
            l \in SeqsUpTo(VerifyRoleItems, MaxVerifyRoles) }

ExpectedNames == SeqsUpTo({"author", "reader", ""}, MaxVerifyRoles)

\* the order of str on the names of the model
NameRank(n) == CASE n = "" -> 0 [] n = "author" -> 1 [] OTHER -> 2

\* sorted(names)
RECURSIVE sorted(_)
sorted(names) ==
    IF names = <<>> THEN <<>>
    ELSE LET least == CHOOSE i \in 1..Len(names) :
                          \A j \in 1..Len(names) :
                              \/ NameRank(names[i]) < NameRank(names[j])
                              \/ NameRank(names[i]) = NameRank(names[j]) /\ i <= j
         IN  <<names[least]>>
                 \o sorted(SubSeq(names, 1, least - 1) \o SubSeq(names, least + 1, Len(names)))

\* [role.get('role_name') for role in roles if role.get('role_name')]
RECURSIVE actual_role_names(_)
actual_role_names(roles) ==
    IF roles = <<>> THEN <<>>
    ELSE LET role_name == roles[1].role_name
         IN  (IF PyTruthy(role_name) THEN <<role_name.s>> ELSE <<>>)
                 \o actual_role_names(Tail(roles))

\* the names of a list, each once
NameSet(names) == { names[i] : i \in 1..Len(names) }

\* verify_roles comparing the names without their multiplicity
verify_roles_as_sets(user_detail, expected_role_names) ==
    IF user_detail.k \in {"none", "empty"} \/ user_detail.roles.k = "absent"
    THEN Result(expected_role_names = <<>>, JNull, JNull, <<>>)
    ELSE IF user_detail.roles.k = "null" THEN Raise("TypeError")
    ELSE Result(NameSet(actual_role_names(user_detail.roles.o))
                    = NameSet(expected_role_names), JNull, JNull, <<>>)

\* update_user_roles.verify_roles
verify_roles(user_detail, expected_role_names) ==
    IF user_detail.k \in {"none", "empty"} \/ user_detail.roles.k = "absent"
    THEN Result(expected_role_names = <<>>, JNull, JNull, <<>>)
    ELSE IF user_detail.roles.k = "null"
    THEN Raise("TypeError")                          \* for role in None
    ELSE Result(sorted(actual_role_names(user_detail.roles.o))
                    = sorted(expected_role_names), JNull, JNull, <<>>)

\* verify_roles(user_detail, expected_role_names) called once
VerifyRolesCall ==
    /\ prog = "update_user_roles.verify_roles"
    /\ ppc = "start"
    /\ ret' = EndedAs(verify_roles(env.user_detail, env.expected_role_names))
    /\ ppc' = "done"
    /\ UNCHANGED <<prog, env, sent>>
    /\ UNCHANGED <<partvars, mainvars, rendervars>>

VerifyPrograms ==
    { [prog |-> "update_user_roles.verify_roles",
       env |-> [k |-> "verify", user_detail |-> d, expected_role_names |-> e]] :
        d \in UserDetails, e \in ExpectedNames }

\* ---- demo_role_cycle.py ----

\* demo_role_cycle.create_role: None, or resp_data.get("data", {})
demo_role_cycle_create_role(r) ==
    IF r.net = "conn_error" \/ ~r.json THEN JNull
    ELSE IF r.status >= 400 \/ InBody(r.body, "error") THEN JNull
    ELSE BodyGet(r.body, "data", JObj(<<>>))

\* add_role_to_user and remove_role_from_user of demo_role_cycle.py
demo_role_cycle_role_of_user(r) ==
    IF r.net = "conn_error" \/ ~r.json THEN FALSE
    ELSE ~(r.status >= 400 \/ InBody(r.body, "error"))

\* demo_role_cycle.delete_role(token, role_id)
demo_role_cycle_delete_role(r) ==
    IF r.net = "conn_error" \/ ~r.json THEN FALSE
    ELSE ~(r.status >= 400 \/ InBody(r.body, "error"))

\* main: the steps that can end the run, in order
DemoMainPlan ==
    << "login", "create_role", "get_user_detail", "add_role_to_user", "get_user_detail_again",
       "remove_role_from_user", "get_user_roles", "delete_role" >>

DemoMainAt(kind) ==
    /\ prog = "demo_role_cycle.main"
    /\ ppc = "run"
    /\ DemoMainPlan[env.at] = kind

DemoMainGoesOn ==
    /\ env' = [env EXCEPT !.at = @ + 1]
    /\ UNCHANGED <<ret, ppc>>
DemoMainEnds(how) ==
    /\ env' = env
    /\ ret' = how
    /\ ppc' = "done"

\* admin_token, admin_user = login(...); `if not admin_token: sys.exit(1)`
DemoMainLogin ==
    /\ DemoMainAt("login")
    /\ \E r \in Responses :
          LET res == login(r)
          IN  IF res.exc /= "none" THEN DemoMainEnds(EndedAs(res)) ELSE DemoMainGoesOn
    /\ sent' = Append(sent, "POST /api/auth/login")
    /\ UNCHANGED prog
    /\ UNCHANGED <<partvars, mainvars, rendervars>>

\* role_data = create_role(admin_token, "tiger", 100); the run ends when
\* role_data is falsy or has no id.  created: the server answered the POST
\* with a success.
DemoMainCreateRole ==
    /\ DemoMainAt("create_role")
    /\ \E r \in Responses :
          LET role_data == demo_role_cycle_create_role(r)
              created == role_data /= JNull
              tiger_role_id == IF role_data.k = "obj"
                               THEN DictGet(role_data, "id", JNull) ELSE JNull
          IN  IF ~PyTruthy(role_data)
              THEN /\ env' = [env EXCEPT !.created = created]
                   /\ ret' = Exits(1)
                   /\ ppc' = "done"
              ELSE IF role_data.k /= "obj"
              THEN /\ env' = [env EXCEPT !.created = created]
                   /\ ret' = Raises("AttributeError")
                   /\ ppc' = "done"
              ELSE IF ~PyTruthy(tiger_role_id)
              THEN /\ env' = [env EXCEPT !.created = created]
                   /\ ret' = Exits(1)
                   /\ ppc' = "done"
              ELSE /\ env' = [env EXCEPT !.created = created,
                                          !.tiger_role_id = tiger_role_id.s,
                                          !.at = @ + 1]
                   /\ UNCHANGED <<ret, ppc>>
    /\ sent' = Append(sent, "POST /api/roles")
    /\ UNCHANGED prog
    /\ UNCHANGED <<partvars, mainvars, rendervars>>

\* user_detail = get_user_detail(admin_token, bob_email), steps 2 and 4; the
\* first one needs user_detail["user"]["id"] too
DemoMainGetUserDetail ==
    /\ DemoMainAt("get_user_detail") \/ DemoMainAt("get_user_detail_again")
    /\ \E detail \in {"none", "no_user", "user_not_dict", "user_without_id", "user"} :
          IF detail = "none" THEN DemoMainEnds(Exits(1))
          ELSE IF DemoMainPlan[env.at] = "get_user_detail_again" \/ detail = "user"
          THEN DemoMainGoesOn
          ELSE IF detail = "user_not_dict" THEN DemoMainEnds(Raises("AttributeError"))
          ELSE DemoMainEnds(Exits(1))
    /\ sent' = Append(sent, "GET /api/auth/profile/:identifier")
    /\ UNCHANGED prog
    /\ UNCHANGED <<partvars, mainvars, rendervars>>

\* `if not add_role_to_user(...)`, `if not remove_role_from_user(...)`
DemoMainRoleOfUser ==
    /\ DemoMainAt("add_role_to_user") \/ DemoMainAt("remove_role_from_user")
    /\ \E r \in Responses :
          IF demo_role_cycle_role_of_user(r) THEN DemoMainGoesOn
          ELSE DemoMainEnds(Exits(1))
    /\ sent' = Append(sent,
                      (IF DemoMainPlan[env.at] = "add_role_to_user" THEN "POST" ELSE "DELETE")
                          \o " /api/users/:user_id/roles/" \o env.tiger_role_id)
    /\ UNCHANGED prog
    /\ UNCHANGED <<partvars, mainvars, rendervars>>

\* roles = get_user_roles(admin_token, bob_email); None ends the run
DemoMainGetUserRoles ==
    /\ DemoMainAt("get_user_roles")
    /\ \E roles \in {"none", "list"} :
          IF roles = "none" THEN DemoMainEnds(Exits(1)) ELSE DemoMainGoesOn
    /\ sent' = Append(sent, "GET /api/auth/profile/:identifier")
    /\ UNCHANGED prog
    /\ UNCHANGED <<partvars, mainvars, rendervars>>

\* step 7: delete_role(admin_token, tiger_role_id), and the end of main
DemoMainDeleteRole ==
    /\ DemoMainAt("delete_role")
    /\ \E r \in Responses :
          DemoMainEnds(IF demo_role_cycle_delete_role(r) THEN Returns(TRUE, JNull, JNull)
                       ELSE Exits(1))
    /\ sent' = Append(sent, "DELETE /api/roles/" \o env.tiger_role_id)
    /\ UNCHANGED prog
    /\ UNCHANGED <<partvars, mainvars, rendervars>>

DemoPrograms ==
    { [prog |-> "demo_role_cycle.main",
       env |-> [k |-> "main", at |-> 1, created |-> FALSE, tiger_role_id |-> ""]] }

\* the calls and the runs SpecScript starts from
Programs ==
    LoginPrograms \cup AddRolePrograms \cup RegisterPrograms \cup DeleteRolePrograms
        \cup CookiePrograms \cup VerifyPrograms \cup DemoPrograms

InitScript ==
    /\ \E p \in Programs : prog = p.prog /\ env = p.env
    /\ ppc = (IF env.k = "main" THEN "run" ELSE "start")
    /\ sent = <<>>
    /\ ret = NotEnded
    /\ resp = NoResponse
    /\ op = "none"
    /\ result = NoResult
    /\ pc = "script"
    /\ MainIdle
    /\ RenderIdle

NextScript ==
    \/ LoginSafeCall
    \/ LoginAccountCall
    \/ AssignRoleToUserCall
    \/ AddRoleMainLogin
    \/ AddRoleMainLookup
    \/ AddRoleMainDetail
    \/ AddRoleMainAssign
    \/ AddRoleMainSummary
    \/ RegisterMainRegister
    \/ RegisterMainLogin
    \/ RegisterMainConfirm
    \/ RegisterMainDelete
    \/ RegisterMainEnd
    \/ CreateDeleteRoleDeleteRole
    \/ ListUsersDeleteRole
    \/ UpdateUserRolesDeleteRole
    \/ TestRefreshCall
    \/ CookieMainLogin
    \/ CookieMainRefresh
    \/ CookieMainLogout
    \/ CookieMainExpiry
    \/ VerifyRolesCall
    \/ DemoMainLogin
    \/ DemoMainCreateRole
    \/ DemoMainGetUserDetail
    \/ DemoMainRoleOfUser
    \/ DemoMainGetUserRoles
    \/ DemoMainDeleteRole

SpecScript == InitScript /\ [][NextScript]_vars

----------------------------------------------------------------------------
(* Vocabulary of the properties below.                                     *)

Done == pc = "done"
Decoded == resp.net = "ok" /\ resp.json

RegisterOps ==
    {"register_user", "list_users.register_user", "update_user_profile.register_user"}

\* the operations that extract the failure message inline and return it
InlineOps == RegisterOps \cup {"delete_user", "change_password", "logout"}

\* every operation of Next except share.login
ReturningOps ==
    InlineOps \cup
    { "login_safe", "create_role", "update_user_roles", "get_profile", "filter_rules",
      "reset_password_with_token", "parse_response", "handle_error_response" }

SuccessStatus(o) == IF o \in RegisterOps THEN 201 ELSE 200

\* register_user.py and list_users.py append the validation detail
DetailSuffix(o) ==
    IF o \in {"register_user", "list_users.register_user"}
       /\ resp.body.data.k = "obj" /\ Len(resp.body.data.o) > 0
    THEN " | Chi tiet: " \o JsonDumps(resp.body.data)
    ELSE ""

\* the detail line of handle_error_response for an extracted value v
DetailLine(v) == "Chi tiet: " \o PyStr(v)
Printed(line) == \E i \in 1..Len(result.printed) : result.printed[i] = line

UnknownText(o) ==
    CASE o \in RegisterOps -> "Loi khong xac dinh"
      [] o = "delete_user" -> "Loi xoa user khong xac dinh"
      [] o = "change_password" -> "Loi doi mat khau khong xac dinh"
      [] o = "logout" -> "Loi logout khong xac dinh"
      [] OTHER -> ""

----------------------------------------------------------------------------
(* C1  Every classifying operation reports a decoded response that carries  *)
(* a non-empty `error` key, or whose status is >= 400, as a failure,        *)
(* whatever `data` holds.                                                   *)
C1Ops ==
    RegisterOps \cup
    { "create_role", "update_user_roles", "delete_user", "filter_rules", "get_profile",
      "change_password", "logout", "parse_response" }

C1_ErrorOrFailingStatusIsFailure ==
    (Done /\ op \in C1Ops /\ Decoded
          /\ (PyTruthy(resp.body.error) \/ resp.status >= 400))
        => ~result.ok

----------------------------------------------------------------------------
(* C2  No classifying operation raises or ends the process on an expected   *)
(* failure envelope (a decodable error body or a failing status): login,    *)
(* like the others, hands a failure value back.                             *)
FailureEnvelope ==
    /\ resp.net = "ok"
    /\ \/ resp.status >= 400
       \/ resp.json /\ PyTruthy(resp.body.error)

----------------------------------------------------------------------------
(* C3  When the body cannot be decoded as JSON the operation reports a      *)
(* failure, never success, whatever the status is, and the failure carries  *)
(* the HTTP status.  Stated of the operations that check the decoding.      *)
C3Ops ==
    InlineOps \cup {"parse_response", "reset_password_with_token"}

StatusTexts(st) ==
    { "Response khong phai JSON. Status: " \o ToString(st),
      "Dat lai mat khau that bai: " \o ToString(st) }

C3_UndecodableIsFailureWithStatus ==
    (Done /\ op \in C3Ops /\ resp.net = "ok" /\ ~resp.json) =>
        /\ ~result.ok
        /\ \/ result.msg.k = "str" /\ result.msg.s \in StatusTexts(resp.status)
           \/ \E t \in StatusTexts(resp.status) : Printed(t)

----------------------------------------------------------------------------
(* C4  A decoded response with the success status and no non-empty `error`  *)
(* is a success whose payload is body.data when the key is present and the  *)
(* whole body when it is absent.                                            *)
C4Ops == RegisterOps \cup {"filter_rules", "get_profile"}

C4_SuccessPayloadDataOrBody ==
    (Done /\ op \in C4Ops /\ Decoded /\ resp.status = SuccessStatus(op)
          /\ ~PyTruthy(resp.body.error))
        => /\ result.ok
           /\ result.payload = (IF InBody(resp.body, "data") THEN resp.body.data ELSE JWhole)

\* the shape of `data` the operation reads without failing
DataShapeRead(o) ==
    CASE o = "filter_rules" -> resp.body.data.k = "list"
      [] o = "list_users.register_user" -> TRUE
      [] OTHER -> resp.body.data.k = "obj"

(* C4 as amended: with the success status and no `error` key (registration  *)
(* ignores the key), a `data` key of the shape the operation reads gives a  *)
(* success whose payload is body.data; without the `data` key the operation *)
(* reports a failure.                                                       *)
C4_SuccessNeedsData ==
    (Done /\ op \in C4Ops /\ Decoded /\ resp.status = SuccessStatus(op)
          /\ (op \in RegisterOps \/ ~InBody(resp.body, "error")))
        => /\ (InBody(resp.body, "data") /\ DataShapeRead(op))
                => (result.ok /\ result.payload = resp.body.data /\ result.msg = JNull)
           /\ ~InBody(resp.body, "data")
                => (~result.ok /\ result.exc = "none" /\ result.payload = JNull)

C4_Witness ==
    /\ Done /\ op = "update_user_profile.register_user" /\ Decoded
    /\ resp.status = 201
    /\ resp.body.data = JObj(<<Item("id", LStr("5"))>>)
    /\ result.ok /\ result.payload = JObj(<<Item("id", LStr("5"))>>)

----------------------------------------------------------------------------
(* C5  For a failing response whose `error` is a non-empty string the       *)
(* failure message handed to the caller is exactly that string; a login     *)
(* answered 401 {"error": "bad credentials"} fails with that message.       *)
StringError == resp.body.error.k = "str" /\ resp.body.error.s /= ""

C5_StringErrorVerbatim ==
    (Done /\ op \in InlineOps \cup {"login_safe"} /\ Decoded
          /\ resp.status >= 400 /\ StringError)
        => (~result.ok /\ result.msg = resp.body.error)

\* the texts login_safe makes up itself
LoginSafeTexts ==
    { "Dang nhap that bai" } \cup
    { "Loi khong mong doi: " \o ExcText(e, st) :
        e \in {"HTTPError", "JSONDecodeError", "ConnectionError", "AttributeError"},
        st \in Statuses }

(* C5 as amended: without a top-level `message` key the inline extractors   *)
(* hand back that string (register_user.py and list_users.py followed by    *)
(* the detail suffix); login_safe fails with a text of its own, never with  *)
(* the server's string.                                                     *)
C5_StringErrorUnlessOverridden ==
    (Done /\ Decoded /\ resp.status >= 400 /\ StringError) =>
        /\ (op \in InlineOps /\ ~InBody(resp.body, "message"))
              => (~result.ok /\ result.msg = JStr(resp.body.error.s \o DetailSuffix(op)))
        /\ op = "login_safe"
              => (~result.ok /\ result.msg.k = "str"
                  /\ result.msg.s \in LoginSafeTexts
                  /\ result.msg /= resp.body.error)

C5_Witness ==
    /\ Done /\ op = "delete_user" /\ Decoded /\ resp.status = 401
    /\ resp.body.error = JStr("bad credentials")
    /\ ~InBody(resp.body, "message")
    /\ result.msg = JStr("bad credentials")

----------------------------------------------------------------------------
(* C6  For a failing response whose `error` is a non-empty object with a    *)
(* `message` field every extractor yields exactly error.message.            *)
ObjectErrorWithMessage ==
    resp.body.error.k = "obj" /\ HasKey(resp.body.error, "message")
ErrorMessage == DictGet(resp.body.error, "message", JAbsent)

C6_ObjectErrorMessage ==
    (Done /\ Decoded /\ resp.status >= 400 /\ ObjectErrorWithMessage) =>
        /\ op \in InlineOps => result.msg = ErrorMessage
        /\ op = "handle_error_response" => Printed(DetailLine(ErrorMessage))

(* C6 as amended: when the body has no top-level `message` key every        *)
(* extractor yields exactly error.message (register_user.py and             *)
(* list_users.py followed by the detail suffix when error.message is a      *)
(* string).                                                                 *)
C6_ObjectErrorMessageUnlessOverridden ==
    (Done /\ Decoded /\ resp.status >= 400 /\ ObjectErrorWithMessage
          /\ ~InBody(resp.body, "message")) =>
        /\ op \in InlineOps
              => IF ErrorMessage.k = "str"
                 THEN result.msg = JStr(ErrorMessage.s \o DetailSuffix(op))
                 ELSE DetailSuffix(op) = "" => result.msg = ErrorMessage
        /\ op \in {"handle_error_response", "change_password", "parse_response"}
              => Printed(DetailLine(ErrorMessage))

C6_Witness ==
    /\ Done /\ op = "change_password" /\ Decoded /\ resp.status = 400
    /\ resp.body.error = JObj(<<Item("message", LStr("denied"))>>)
    /\ ~InBody(resp.body, "message")
    /\ result.msg = JStr("denied")
    /\ Printed("Chi tiet: denied")

----------------------------------------------------------------------------
(* C7  For a failing response with a top-level `message` key every          *)
(* extractor reports that value, whatever `error` gives (the registration   *)
(* variants that append the detail report it followed by the detail).       *)
C7_TopLevelMessageWins ==
    (Done /\ Decoded /\ resp.status >= 400 /\ InBody(resp.body, "message")) =>
        /\ op \in InlineOps
              => \/ result.msg = resp.body.message
                 \/ result.msg = JStr(PyStr(resp.body.message) \o DetailSuffix(op))
        /\ op = "handle_error_response" => Printed(DetailLine(resp.body.message))

----------------------------------------------------------------------------
(* C8  On every failure path the inline extractors return a non-empty       *)
(* string: the fixed 'unknown error' text when neither `error` nor the      *)
(* top-level `message` yields text; on success the message is None.         *)
YieldsText(v) == v.k = "str" /\ v.s /= ""
ErrorYieldsText ==
    \/ YieldsText(resp.body.error)
    \/ resp.body.error.k = "obj" /\ YieldsText(DictGet(resp.body.error, "message", JAbsent))

C8_FailureMessageNonEmpty ==
    (Done /\ op \in InlineOps) =>
        /\ result.ok => result.msg = JNull
        /\ ~result.ok => (result.msg.k = "str" /\ result.msg.s /= "")
        /\ (~result.ok /\ Decoded /\ resp.status /= SuccessStatus(op)
              /\ ~ErrorYieldsText /\ ~YieldsText(resp.body.message))
              => result.msg = JStr(UnknownText(op) \o DetailSuffix(op))

----------------------------------------------------------------------------
(* C9  For a failing registration response whose `data` is an object the    *)
(* JSON rendering of that object is appended to the failure message, in     *)
(* every variant of register_user.                                          *)
MessageTexts ==
    { "Loi khong xac dinh", "bad credentials", "denied", "top message", "", "None" }

C9_DetailAppended ==
    (Done /\ op \in RegisterOps /\ Decoded /\ resp.status /= 201
          /\ resp.body.data.k = "obj" /\ Len(resp.body.data.o) > 0)
        => \E b \in MessageTexts :
              result.msg = JStr(b \o " | Chi tiet: " \o JsonDumps(resp.body.data))

----------------------------------------------------------------------------
MapBuilt == ~role_names_map.none
MapIsEmpty == role_names_map.m = EmptyMap

\* what holds of the requests in every state of a run
C10_Requests ==
    /\ ~MapBuilt => (roles_requests = 0 /\ renders = 0)
    /\ MapBuilt => roles_requests = 1 + refetches
    /\ (MapBuilt /\ ~MapIsEmpty) =>
           (refetches = 0 /\ (nonempty_renders > 0 => used_map = role_names_map))
    /\ (MapBuilt /\ MapIsEmpty) => refetches = nonempty_renders

----------------------------------------------------------------------------
(* Vocabulary of the builder and renderer properties.                      *)

Called(name) == shown.op = name

\* does the text s contain the text sub
Contains(s, sub) ==
    \E i \in 1..(Len(s) - Len(sub) + 1) : SubSeq(s, i, i + Len(sub) - 1) = sub
StartsWith(s, prefix) ==
    Len(s) >= Len(prefix) /\ SubSeq(s, 1, Len(prefix)) = prefix
EndsWith(s, suffix) ==
    Len(s) >= Len(suffix) /\ SubSeq(s, Len(s) - Len(suffix) + 1, Len(s)) = suffix

\* the line of a rule whose roles are shown as `names`
LineOf(rule, names) ==
    rule.id \o "  , " \o rule.type
    \o (IF Len(names) > 0 THEN "(" \o Join(names) \o ")" ELSE "")
    \o (IF rule.fixed THEN " , fixed" ELSE "")
    \o (IF rule.service_name = "" THEN ""
        ELSE IF rule.fixed THEN ", " \o rule.service_name
        ELSE " , " \o rule.service_name)

Quoted(s) == "\"" \o s \o "\""
QuotedIds(roles) == [i \in 1..Len(roles) |-> Quoted(ToString(roles[i]))]

----------------------------------------------------------------------------
(* C11: share.get_role_names_map never raises and returns the empty map on  *)
(* every transport failure (connection error, non-JSON body, status >= 400) *)
(* and on every application failure (a body with a non-empty `error` key,   *)
(* whatever `data` holds).                                                  *)
C11_EmptyMapOnEveryFailure ==
    Called("get_role_names_map") =>
        /\ shown.exc = "none"
        /\ ( \/ given.resp.net /= "ok"
             \/ ~given.resp.json
             \/ given.resp.status >= 400
             \/ PyTruthy(given.resp.body.error) )
              => shown.map = EmptyMap

----------------------------------------------------------------------------
(* C12: rendering rules with an empty role-name map renders every role id   *)
(* of every rule as its stringified id and never fails: print_rules_list    *)
(* called with an empty role_names_map shows the ids verbatim.              *)

\* main has just rendered the non-empty rule list step_rules
JustRendered ==
    /\ mpc \in {"filter", "done"}
    /\ step_rules.k = "list"
    /\ Len(step_rules.o) > 0

----------------------------------------------------------------------------
(* C13: for every rule and every role-name map the rendered role list has   *)
(* exactly one entry for each element of rule.roles, in the same order: the *)
(* quoted mapped name when the id is a key of the map, otherwise the quoted *)
(* stringified id; no role is dropped.                                      *)
C13_OneEntryPerRole ==
    Called("rule_line") =>
        LET roles == given.rule.roles
            line == shown.lines[1]
        IN  /\ shown.exc = "none"
            /\ Len(shown.names) = Len(roles)
            /\ \A i \in 1..Len(roles) :
                  shown.names[i] = (IF roles[i] \in DOMAIN given.map
                                    THEN Quoted(given.map[roles[i]])
                                    ELSE Quoted(ToString(roles[i])))
            /\ Len(roles) > 0 => Contains(line, "(" \o Join(shown.names) \o ")")

\* a rule naming a role the map has and one it has not, in that order
C13_Witness ==
    /\ Called("rule_line")
    /\ given.rule.roles = <<1, UnlistedRoleId>>
    /\ 1 \in DOMAIN given.map
    /\ shown.names = <<Quoted(given.map[1]), Quoted("99")>>

----------------------------------------------------------------------------
----------------------------------------------------------------------------
\* a listing that succeeded: the roles of its `data` list
ListedRoles == given.resp.body.data.o
SuccessfulListing ==
    /\ given.kind = "listing"
    /\ given.resp.net = "ok"
    /\ given.resp.status < 400
    /\ given.resp.json
    /\ InBody(given.resp.body, "data")
    /\ given.resp.body.data.k = "list"
DistinctNamedRoles ==
    /\ \A i \in 1..Len(ListedRoles) :
          ListedRoles[i].has_id /\ ListedRoles[i].name /= ""
    /\ \A i, j \in 1..Len(ListedRoles) :
          ListedRoles[i].id = ListedRoles[j].id => i = j

(* C15: for a successful role listing whose data is a list of roles with   *)
(* distinct non-null ids and non-empty names, get_role_names_map returns   *)
(* exactly the map id -> name over the listed roles, no key extra and none *)
(* missing; resolving a listed id through it gives the listed name, and    *)
(* resolving any other id gives the id written as text.                    *)
C15_MapIsExactlyTheListing ==
    (Called("get_role_names_map") /\ SuccessfulListing /\ DistinctNamedRoles) =>
        /\ DOMAIN shown.map = { ListedRoles[i].id : i \in 1..Len(ListedRoles) }
        /\ \A i \in 1..Len(ListedRoles) :
              /\ shown.map[ListedRoles[i].id] = ListedRoles[i].name
              /\ role_names(<<ListedRoles[i].id>>, shown.map)
                    = <<Quoted(ListedRoles[i].name)>>
              /\ RoleNamesStr(<<ListedRoles[i].id>>, shown.map)
                    = Quoted(ListedRoles[i].name)
        /\ \A id \in RuleRoleIds \ DOMAIN shown.map :
              /\ role_names(<<id>>, shown.map) = <<Quoted(ToString(id))>>
              /\ RoleNamesStr(<<id>>, shown.map) = Quoted(ToString(id))

\* a listing of two roles, the second id first, and one id left unlisted
C15_Witness ==
    /\ Called("get_role_names_map") /\ SuccessfulListing /\ DistinctNamedRoles
    /\ Len(ListedRoles) = 2
    /\ ListedRoles[1].id = 2 /\ ListedRoles[2].id = 1
    /\ shown.map = (1 :> "admin" @@ 2 :> "author")
    /\ UnlistedRoleId \notin DOMAIN shown.map

----------------------------------------------------------------------------
\* the rule and the map of the example
ExampleRule ==
    [id |-> "GET|/api/bar", type |-> "ALLOW", fixed |-> TRUE, service_name |-> "",
     roles |-> <<1, 2>>]
ExampleMap == (1 :> "author" @@ 2 :> "reader")
ExampleLine == "GET|/api/bar  , ALLOW(\"author\", \"reader\") , fixed"

(* C16: the line print_rules_list prints for a rule is `<id>  , <TYPE>`,    *)
(* then the quoted role names joined by `, ` in parentheses exactly when    *)
(* the rule has roles, then ` , fixed` exactly when fixed is true, then the *)
(* service name exactly when it is non-empty, after `, ` when fixed was     *)
(* printed and after ` , ` otherwise; the rule GET|/api/bar, ALLOW, fixed,  *)
(* no service name, roles [1,2] with the map {1: author, 2: reader} gives   *)
(* `GET|/api/bar  , ALLOW("author", "reader") , fixed`.                     *)
C16_RuleLineFormat ==
    /\ RuleLine(ExampleRule, ExampleMap) = ExampleLine
    /\ Called("rule_line") =>
          LET rule == given.rule
              line == shown.lines[1]
              head == rule.id \o "  , " \o rule.type
              with_roles == IF Len(rule.roles) > 0
                            THEN head \o "(" \o Join(shown.names) \o ")"
                            ELSE head
              with_fixed == IF rule.fixed THEN with_roles \o " , fixed" ELSE with_roles
          IN  /\ Len(shown.lines) = 1
              /\ Len(shown.names) = Len(rule.roles)
              /\ line = LineOf(rule, shown.names)
              /\ StartsWith(line, with_fixed)
              /\ rule.service_name = "" => line = with_fixed
              /\ (rule.service_name /= "" /\ rule.fixed)
                    => line = with_fixed \o ", " \o rule.service_name
              /\ (rule.service_name /= "" /\ ~rule.fixed)
                    => line = with_fixed \o " , " \o rule.service_name

\* the example itself has been printed
C16_Witness ==
    /\ Called("rule_line")
    /\ given.rule = ExampleRule
    /\ given.map = ExampleMap
    /\ shown.lines = <<ExampleLine>>

\* a fixed rule of a service, with roles
C16_WitnessService ==
    /\ Called("rule_line")
    /\ given.rule.fixed /\ given.rule.service_name = "blog"
    /\ given.rule.roles = <<2>> /\ given.map = ExampleMap
    /\ shown.lines = <<given.rule.id \o "  , " \o given.rule.type
                        \o "(\"reader\") , fixed, blog">>

----------------------------------------------------------------------------
\* a rule that is not fixed and names no service
PlainRule == given.kind = "rule" /\ ~given.rule.fixed /\ given.rule.service_name = ""

\* the line ends with the type or with the parenthesis closing the role list
EndsWithTypeOrRoles(line, rule) ==
    IF Len(rule.roles) > 0 THEN EndsWith(line, "\")") ELSE EndsWith(line, rule.type)

(* C17 as stated: for a rule with fixed false and an empty service name,    *)
(* the line never contains the substring `fixed` and has no trailing empty  *)
(* segment.                                                                 *)
C17_NeverContainsFixed ==
    (Called("rule_line") /\ PlainRule) =>
        /\ ~Contains(shown.lines[1], "fixed")
        /\ EndsWithTypeOrRoles(shown.lines[1], given.rule)

(* C17 amended: for a rule with fixed false and an empty service name, the  *)
(* line is the id, `  , `, the type and the role list when the rule has     *)
(* roles, and nothing more: no ` , fixed` segment and no trailing segment.  *)
(* The word `fixed` is in the line only where the id, the type or a role    *)
(* name holds it.                                                           *)
C17_NoFixedSegment ==
    (Called("rule_line") /\ PlainRule) =>
        LET rule == given.rule
            line == shown.lines[1]
            head == rule.id \o "  , " \o rule.type
        IN  /\ line = (IF Len(rule.roles) > 0
                       THEN head \o "(" \o Join(shown.names) \o ")"
                       ELSE head)
            /\ EndsWithTypeOrRoles(line, rule)
            /\ ~EndsWith(line, " , ") /\ ~EndsWith(line, ", ")
            /\ ~EndsWith(line, " , fixed")
            /\ Contains(line, "fixed") =>
                  \/ Contains(rule.id, "fixed")
                  \/ Contains(rule.type, "fixed")
                  \/ \E i \in 1..Len(shown.names) : Contains(shown.names[i], "fixed")

\* a rule that is not fixed, whose id holds the word, printed with its roles
C17_Witness ==
    /\ Called("rule_line") /\ PlainRule
    /\ given.rule.id = "GET|/api/fixed"
    /\ given.rule.roles = <<1>>
    /\ given.map = ExampleMap
    /\ shown.lines = <<"GET|/api/fixed  , " \o given.rule.type \o "(\"author\")">>

----------------------------------------------------------------------------
(* C18: for a rule whose roles is the empty list the line holds no empty    *)
(* parentheses `()`: the type is printed bare, followed at once by the end  *)
(* of the line or by the separator of the next segment.                     *)
C18_NoEmptyParentheses ==
    (Called("rule_line") /\ given.rule.roles = <<>>) =>
        LET rule == given.rule
            line == shown.lines[1]
            head == rule.id \o "  , " \o rule.type
        IN  /\ shown.names = <<>>
            /\ ~Contains(line, "()")
            /\ ~Contains(line, "(") /\ ~Contains(line, ")")
            /\ line = head \/ StartsWith(line, head \o " , ")

\* a rule without roles, fixed and of a service, printed with a map of names
C18_Witness ==
    /\ Called("rule_line")
    /\ given.rule.roles = <<>>
    /\ given.rule.fixed /\ given.rule.service_name = "blog"
    /\ given.map = ExampleMap
    /\ shown.lines = <<given.rule.id \o "  , " \o given.rule.type \o " , fixed, blog">>

----------------------------------------------------------------------------
\* a role item that carries a name: a non-empty string, or an object with a
\* non-empty text under `name`, `role_name` or `roleName`
NamedRoleItem(role) ==
    /\ role.s /= ""
    /\ role.k = "str" \/ role.key \in {"name", "role_name", "roleName"}

\* one user whose roles are absent or a list of items that carry a name
OneUserWithNamedRoles ==
    /\ given.kind = "users"
    /\ Len(given.users) = 1
    /\ given.users[1].roles.k \in {"absent", "list"}
    /\ \A i \in 1..Len(given.users[1].roles.o) :
          NamedRoleItem(given.users[1].roles.o[i])

\* the names of the roles of that user, in input order
NamesOfUser == [i \in 1..Len(given.users[1].roles.o) |-> given.users[1].roles.o[i].s]

\* the line of the printed entry that shows the roles
RolesShownAs(text) ==
    \E i \in 1..Len(shown.lines) : EndsWith(shown.lines[i], " Roles: " \o text)

(* C19: list_users.print_users_list and list_user_has_role.print_users_list *)
(* both flatten user.roles (absent, a list of plain strings, or a list of   *)
(* objects keyed name, role_name or roleName) into the comma-joined list of *)
(* all those names in input order, never fail on such input, and show a     *)
(* non-empty placeholder when the user has no role name.                    *)
C19_RolesFlattenedByBothRenderers ==
    ((Called("list_users.print_users_list")
        \/ Called("list_user_has_role.print_users_list"))
     /\ OneUserWithNamedRoles) =>
        /\ shown.exc = "none"
        /\ shown.names = NamesOfUser
        /\ IF Len(NamesOfUser) > 0
           THEN RolesShownAs(Join(NamesOfUser))
           ELSE \E i \in 1..Len(shown.lines) :
                    /\ Contains(shown.lines[i], " Roles: ")
                    /\ ~EndsWith(shown.lines[i], " Roles: ")

\* what list_users.print_users_list alone does on those inputs
C19_ListUsersFlattens ==
    (Called("list_users.print_users_list") /\ OneUserWithNamedRoles) =>
        /\ shown.exc = "none"
        /\ shown.names = NamesOfUser
        /\ IF Len(NamesOfUser) > 0
           THEN RolesShownAs(Join(NamesOfUser))
           ELSE RolesShownAs("(khong co role)")

\* list_user_has_role.print_users_list on a user whose one role is a string
C19_StringRoleDropped ==
    /\ Called("list_user_has_role.print_users_list")
    /\ OneUserWithNamedRoles
    /\ NamesOfUser = <<"admin">>
    /\ shown.lines = <<"1. User ID: u1, Email: u1@gmail.com, Roles: N/A">>

----------------------------------------------------------------------------
\* the input sequence of the list renderer that was called
Records ==
    IF given.kind = "roles" THEN given.roles
    ELSE IF given.kind = "rules" THEN given.rules
    ELSE IF given.kind = "users" THEN given.users
    ELSE <<>>

CalledListRenderer ==
    \/ Called("print_roles_list")
    \/ Called("print_rules_list")
    \/ Called("list_users.print_users_list")
    \/ Called("list_user_has_role.print_users_list")

\* the notice each renderer prints for an empty list
NoRecordsNotice ==
    IF Called("print_roles_list") THEN "Khong co role nao"
    ELSE IF Called("print_rules_list") THEN "Khong co rule nao"
    ELSE "Khong co user nao"
IsNotice(line) == line \in {"Khong co role nao", "Khong co rule nao", "Khong co user nao"}

\* the text that opens the entry of a record, after its number if it has one
EntryOpening(record) ==
    IF Called("print_roles_list") THEN "Role ID: " \o ToString(record.id) \o ", "
    ELSE IF Called("print_rules_list") THEN record.id \o "  , "
    ELSE IF Called("list_users.print_users_list") THEN "ID: " \o record.id
    ELSE "User ID: " \o record.id \o ", "

\* the printed lines that open an entry: every line of print_roles_list,
\* print_rules_list and list_user_has_role.print_users_list that is not the
\* notice, and the `ID:` line of each block of list_users.print_users_list
EntryLines ==
    IF Called("list_users.print_users_list")
    THEN SelectSeq(shown.lines, LAMBDA l : Contains(l, ". ID: "))
    ELSE SelectSeq(shown.lines, LAMBDA l : ~IsNotice(l))
Notices == SelectSeq(shown.lines, IsNotice)

\* the users before the first one whose roles is null
RECURSIVE BeforeNullRoles(_)
BeforeNullRoles(users) ==
    IF Len(users) = 0 \/ Head(users).roles.k = "null" THEN <<>>
    ELSE <<Head(users)>> \o BeforeNullRoles(Tail(users))

C20_WitnessNumbered ==
    /\ Called("print_roles_list")
    /\ Len(given.roles) = 2
    /\ StartsWith(shown.lines[1], "1. Role ID: ")
    /\ StartsWith(shown.lines[2], "2. Role ID: ")

\* an empty list of users given to list_users.print_users_list
C20_WitnessEmpty ==
    /\ Called("list_users.print_users_list")
    /\ given.users = <<>>
    /\ Notices = <<"Khong co user nao">>
    /\ EntryLines = <<>>

\* the second of two users has roles null: one entry, then the TypeError
C20_WitnessStopped ==
    /\ Called("list_user_has_role.print_users_list")
    /\ Len(given.users) = 2
    /\ given.users[1].roles.k = "absent" /\ given.users[2].roles.k = "null"
    /\ shown.exc = "TypeError"
    /\ Len(shown.lines) = 1

----------------------------------------------------------------------------
\* the login response is decodable, has no `error` key, has a `data` key and
\* a non-empty data.token
LoginResponseComplete ==
    /\ resp.net = "ok"
    /\ resp.json
    /\ ~InBody(resp.body, "error")
    /\ InBody(resp.body, "data")
    /\ resp.body.data.k = "obj"
    /\ PyTruthy(DictGet(resp.body.data, "token", JNull))

(* C23: share.login returns (token, user) only when the login response is   *)
(* decodable, has no `error` key, has a `data` key and a non-empty          *)
(* data.token; every other outcome, a failing HTTP status included, ends in *)
(* SystemExit and in no other exception.                                    *)
C23_LoginReturnsOrExits ==
    (Done /\ op = "login") =>
        /\ result.exc = "none" => LoginResponseComplete
        /\ result.exc \in {"none", "SystemExit"}

\* the part of C23 the code keeps: login returns only on a complete response
\* with a status below 400, and then returns the token of the response
C23_LoginReturnsOnlyWhenComplete ==
    (Done /\ op = "login" /\ result.exc = "none") =>
        /\ LoginResponseComplete
        /\ resp.status < 400
        /\ result.payload = DictGet(resp.body.data, "token", JNull)

\* a rejected login (HTTP 401 with an error body) leaves login as HTTPError
C23_RejectedLoginIsHTTPError ==
    /\ Done /\ op = "login"
    /\ resp.status = 401 /\ resp.json
    /\ resp.body.error = JStr("bad credentials")
    /\ result.exc = "HTTPError"

----------------------------------------------------------------------------
Waiting == ppc = "waiting"
Returned == ppc = "done"

(* C21: every HTTP call of share.py and of the scripts carries a fixed      *)
(* client-side timeout, so every issued call eventually returns to its      *)
(* caller, with a response or as a transport failure, even when the server  *)
(* never answers.                                                           *)
C21_EveryCallReturns == Waiting ~> Returned

\* what the code gives: the calls made with timeout=10 do return
C21_TimedCallsReturn == (Waiting /\ prog \in TimedSites) ~> Returned

\* share.login waits for an answer, and nothing but an answer ends the wait
C21_LoginWaits ==
    /\ prog = "share.py:login"
    /\ Waiting
    /\ ~ENABLED TimeoutElapses

----------------------------------------------------------------------------
----------------------------------------------------------------------------
\* the function of part 4 has ended
Ended == ppc = "done"

(* C24: share.login_safe and share.login_account always return and never    *)
(* raise or exit, whatever the login call does: the result is either        *)
(* (True, token, None) with a non-empty token or (False, None, message)     *)
(* with a message that is not null; login_account with an account type      *)
(* other than super_admin or admin returns the failure triple without       *)
(* sending a request.                                                       *)
C24_LoginWrappersAlwaysReturn ==
    (Ended /\ prog \in {"login_safe", "login_account"}) =>
        /\ ret.kind = "return"
        /\ ret.ok => (PyTruthy(ret.val) /\ ret.msg = JNull)
        /\ ~ret.ok => (ret.val = JNull /\ ret.msg.k = "str" /\ ret.msg.s /= "")
        /\ Len(sent) <= 1
        /\ (prog = "login_account" /\ env.account_type \notin {"super_admin", "admin"})
              => (~ret.ok /\ sent = <<>>)

\* login_account("editor") has returned its failure triple, no request sent
C24_Witness ==
    /\ Ended /\ prog = "login_account"
    /\ env.account_type = "editor"
    /\ ret.kind = "return" /\ ~ret.ok
    /\ sent = <<>>

\* login_account("admin") turned an exception of login into a failure triple
C24_WitnessException ==
    /\ Ended /\ prog = "login_account"
    /\ env.account_type = "admin"
    /\ ret.kind = "return" /\ ~ret.ok
    /\ ret.msg = JStr("Loi khong mong doi: " \o ExcText("HTTPError", 401))
    /\ sent = <<"POST /api/auth/login">>

----------------------------------------------------------------------------
\* what assign_role_to_user observed: the call raised (no answer, or a body
\* that is not JSON), or the request succeeded or failed
CallRaised == resp.net /= "ok" \/ ~resp.json
ObservedSuccess == resp.status < 400 /\ ~InBody(resp.body, "error")

(* C25: assign_role_to_user returns True exactly when the observed outcome  *)
(* (success = status below 400 and no `error` key in the body) equals       *)
(* expected_success, and returns False whenever the call raises, also when  *)
(* a failure was expected; add_role_to_user.main exits with code 0 exactly  *)
(* when all five test cases returned True and with code 1 otherwise.        *)
C25_AssignMatchesExpectation ==
    /\ (Ended /\ prog = "assign_role_to_user") =>
          /\ ret.kind = "return"
          /\ CallRaised => ~ret.ok
          /\ ~CallRaised => (ret.ok <=> (ObservedSuccess <=> env.expected_success))
    /\ (Ended /\ prog = "add_role_to_user.main") =>
          /\ ret.kind \in {"exit", "raise"}
          /\ ret.code \in {0, 1}
          /\ ret.code = 0 <=> (/\ Len(env.tests) = 5
                               /\ \A i \in 1..5 : env.tests[i])

\* a failure was expected and the call raised: False
C25_Witness ==
    /\ Ended /\ prog = "assign_role_to_user"
    /\ ~env.expected_success
    /\ resp.net = "conn_error"
    /\ ret = Returns(FALSE, JNull, JNull)

\* main ran its five test cases, all True, and left with code 0
C25_WitnessAllPassed ==
    /\ Ended /\ prog = "add_role_to_user.main"
    /\ env.tests = <<TRUE, TRUE, TRUE, TRUE, TRUE>>
    /\ ret = Exits(0)

\* main ran its five test cases, one of them False, and left with code 1
C25_WitnessOneFailed ==
    /\ Ended /\ prog = "add_role_to_user.main"
    /\ env.tests = <<TRUE, TRUE, TRUE, FALSE, TRUE>>
    /\ ret = Exits(1)

----------------------------------------------------------------------------
\* the DELETE /api/auth/profile/:id requests of the run, by position in the
\* log of requests
UserDeletes == { i \in 1..Len(sent) : StartsWith(sent[i], "DELETE /api/auth/profile/") }

(* C26: register_user.main issues DELETE /api/auth/profile/:id only after   *)
(* the super_admin login succeeded and confirm_reset returned True (the     *)
(* operator answered y or yes), and only for ids that a successful          *)
(* registration of this run returned; when the operator declines, or the    *)
(* prompt is interrupted or meets the end of input, no user is deleted.     *)
C26_DeleteOnlyAfterConfirmation ==
    prog = "register_user.main" =>
        /\ \A i \in UserDeletes :
              /\ env.login_success
              /\ \E j \in 1..(i - 1) : sent[j] = "POST /api/auth/login super_admin"
              /\ env.confirmed = "True"
              /\ env.answer.kind = "line"
              /\ lower(strip(env.answer.text)) \in {"y", "yes"}
              /\ \E j \in 1..Len(env.registered_user_ids) :
                    /\ sent[i] = "DELETE /api/auth/profile/" \o env.registered_user_ids[j]
                    /\ \E k \in 1..(i - 1) : sent[k] = "POST /api/auth/register"
        /\ (env.confirmed = "False" \/ env.answer.kind /= "line" \/ ~env.login_success)
              => UserDeletes = {}

\* the operator answered yes and both registered users were deleted
C26_Witness ==
    /\ prog = "register_user.main" /\ Ended
    /\ env.registered_user_ids = <<"u1", "u2">>
    /\ env.confirmed = "True"
    /\ Cardinality(UserDeletes) = 2

\* the input ended at the prompt: users were registered, none deleted
C26_WitnessEOF ==
    /\ prog = "register_user.main" /\ Ended
    /\ env.registered_user_ids /= <<>>
    /\ env.login_success
    /\ env.answer.kind = "EOFError"
    /\ UserDeletes = {}

----------------------------------------------------------------------------
\* delete_role was called with a name and no id; the DELETE requests of the
\* call; the answer to GET /api/roles lists a role of that name, and the
\* first one it lists has an id
DeletesByName ==
    /\ prog \in {"create_delete_role.delete_role", "list_users.delete_role",
                 "update_user_roles.delete_role"}
    /\ env.role_name /= JNull
    /\ prog = "create_delete_role.delete_role" => sent[1] = "GET /api/roles"
RoleDeletes == { i \in 1..Len(sent) : StartsWith(sent[i], "DELETE /api/roles/") }
LookupFoundRole ==
    /\ resp.net = "ok" /\ resp.status < 400 /\ resp.json
    /\ resp.body.data.k = "list"
    /\ \E i \in 1..Len(resp.body.data.o) :
          /\ resp.body.data.o[i].name = env.role_name.s
          /\ resp.body.data.o[i].has_id
          /\ \A j \in 1..(i - 1) : resp.body.data.o[j].name /= env.role_name.s

(* C27: in every delete_role that deletes by name (create_delete_role.py,   *)
(* list_users.py, update_user_roles.py) the GET /api/roles lookup precedes  *)
(* the DELETE, and no DELETE is sent when the lookup finds no role or       *)
(* fails; in create_delete_role.delete_role a given role_id takes priority  *)
(* (no lookup), and with neither id nor name it returns False without any   *)
(* request.                                                                 *)
C27_LookupBeforeDelete ==
    Ended =>
        /\ (DeletesByName /\ Len(sent) > 0) =>
              /\ sent[1] = "GET /api/roles"
              /\ RoleDeletes \subseteq {2}
              /\ RoleDeletes /= {} <=> LookupFoundRole
              /\ ~LookupFoundRole => ~ret.ok
        /\ (prog = "create_delete_role.delete_role" /\ Len(sent) > 0
               /\ sent[1] /= "GET /api/roles") =>
              sent = <<"DELETE /api/roles/7">>
        /\ prog = "create_delete_role.delete_role" =>
              /\ Len(sent) > 0
                    <=> ~(env.role_id.none /\ env.role_name = JNull)
              /\ Len(sent) = 0 => ret = Returns(FALSE, JNull, JNull)
        /\ prog \in {"list_users.delete_role", "update_user_roles.delete_role"} =>
              Len(sent) > 0

\* the lookup found the role and the DELETE followed it
C27_Witness ==
    /\ Ended /\ prog = "list_users.delete_role"
    /\ sent = <<"GET /api/roles", "DELETE /api/roles/100">>
    /\ ret.ok

\* the lookup failed: no DELETE
C27_WitnessLookupFailed ==
    /\ Ended /\ prog = "update_user_roles.delete_role"
    /\ resp.status = 401
    /\ sent = <<"GET /api/roles">>
    /\ ~ret.ok

\* an id and a name were given: the id is deleted without lookup
C27_WitnessIdFirst ==
    /\ Ended /\ prog = "create_delete_role.delete_role"
    /\ env.role_name = JStr("tiger")
    /\ sent = <<"DELETE /api/roles/7">>

\* neither id nor name: False without any request
C27_WitnessNeither ==
    /\ Ended /\ prog = "create_delete_role.delete_role"
    /\ env.role_name = JNull
    /\ sent = <<>>
    /\ ~ret.ok

----------------------------------------------------------------------------
\* a step that is one call of test_refresh, alone or as a test of main, and
\* the success flag it returned
RefreshStep ==
    \/ prog = "login_cookie.test_refresh" /\ ppc = "start" /\ ppc' = "done"
    \/ /\ prog = "login_cookie.main" /\ ppc = "run"
       /\ CookieMainPlan[env.at] \in {"refresh", "refresh_after_logout"}
       /\ env'.at = env.at + 1
RefreshSucceeded ==
    IF prog = "login_cookie.test_refresh" THEN ret'.ok
    ELSE IF CookieMainPlan[env.at] = "refresh_after_logout"
    THEN ~env'.results[Len(env'.results)]
    ELSE env'.results[Len(env'.results)]
RefreshAfterLogoutPassed ==
    /\ prog = "login_cookie.main"
    /\ CookieMainPlan[env.at] = "refresh_after_logout"
    /\ env'.results[Len(env'.results)]

(* C28: test_refresh sends POST /api/auth/refresh only when the session     *)
(* holds a refresh_token cookie; without the cookie it returns (False,      *)
(* None) without any request, so that after a logout that cleared the       *)
(* cookie the "refresh after logout must fail" test of main passes without  *)
(* the server being contacted; with the cookie it sends the request once    *)
(* and returns success exactly when the response has status 200 and a       *)
(* non-empty data.token, whether or not the cookie was rotated.             *)
C28_RefreshOnlyWithCookie ==
    [][ RefreshStep =>
          IF env.cookie = ""
          THEN /\ sent' = sent
               /\ ~RefreshSucceeded
               /\ prog = "login_cookie.test_refresh" => ret' = Returns(FALSE, JNull, JNull)
               /\ (prog = "login_cookie.main"
                      /\ CookieMainPlan[env.at] = "refresh_after_logout")
                    => RefreshAfterLogoutPassed
          ELSE /\ sent' = Append(sent, "POST /api/auth/refresh")
               /\ RefreshSucceeded <=>
                     /\ resp'.net = "ok" /\ resp'.json /\ resp'.status = 200
                     /\ resp'.body.data.k = "obj"
                     /\ PyTruthy(DictGet(resp'.body.data, "token", JNull)) ]_vars

\* main went through its refresh after a logout that cleared the cookie:
\* the log ends with the logout request and the test is passed
C28_Witness ==
    /\ prog = "login_cookie.main"
    /\ env.at = 6
    /\ env.cookie = ""
    /\ sent[Len(sent)] = "POST /api/auth/logout"
    /\ env.results[5]

\* a refresh succeeded although the cookie was not rotated
C28_WitnessNoRotation ==
    /\ prog = "login_cookie.test_refresh" /\ Ended
    /\ env.cookie = "rt1"
    /\ sent = <<"POST /api/auth/refresh">>
    /\ ret = Returns(TRUE, JStr("tk"), JNull)

----------------------------------------------------------------------------
\* how many times the name n is among the names; the non-empty role_name
\* values of the user's roles (none when `roles` is null); two lists holding
\* the same names the same number of times
Times(names, n) == Cardinality({ i \in 1..Len(names) : names[i] = n })
SameMultiset(a, b) == \A n \in NameSet(a) \cup NameSet(b) : Times(a, n) = Times(b, n)
NamedRoles(roles) ==
    SelectSeq(roles, LAMBDA role : role.role_name.k = "str" /\ role.role_name.s /= "")
RoleNamesOf(user_detail) ==
    [i \in 1..Len(NamedRoles(user_detail.roles.o)) |->
        NamedRoles(user_detail.roles.o)[i].role_name.s]
VerifyEnded == Ended /\ prog = "update_user_roles.verify_roles"
DetailHasRoles == env.user_detail.k = "dict" /\ env.user_detail.roles.k /= "absent"

(* C29: verify_roles returns True exactly when the multiset of non-empty    *)
(* role_name values of the user's roles equals the multiset of expected     *)
(* names, and when the user detail is missing or has no `roles` key it      *)
(* returns True exactly when the expected list is empty.                    *)
C29_VerifyRolesReturnsMultisetEquality ==
    VerifyEnded =>
        ((ret.kind = "return" /\ ret.ok)
            <=> IF DetailHasRoles
                THEN SameMultiset(RoleNamesOf(env.user_detail), env.expected_role_names)
                ELSE env.expected_role_names = <<>>)

\* C29 for a `roles` that is a list, where verify_roles returns: multiset
\* equality, and the same result for every reordering of either list
C29_MultisetEqualityOnLists ==
    (VerifyEnded /\ env.user_detail.roles.k /= "null") =>
        /\ ret.kind = "return"
        /\ ret.ok <=> IF DetailHasRoles
                      THEN SameMultiset(RoleNamesOf(env.user_detail), env.expected_role_names)
                      ELSE env.expected_role_names = <<>>
        /\ \A e \in ExpectedNames :
              SameMultiset(e, env.expected_role_names)
                  => verify_roles(env.user_detail, e).ok = ret.ok
        /\ \A d \in UserDetails :
              (/\ d.k = env.user_detail.k /\ d.roles.k = env.user_detail.roles.k
               /\ Len(d.roles.o) = Len(env.user_detail.roles.o)
               /\ \A x \in VerifyRoleItems :
                     Times(d.roles.o, x) = Times(env.user_detail.roles.o, x))
                  => verify_roles(d, env.expected_role_names).ok = ret.ok

\* a user whose `roles` is null and no expected name: the call raised
C29_NullRolesRaise ==
    /\ VerifyEnded
    /\ env.user_detail.roles.k = "null"
    /\ env.expected_role_names = <<>>
    /\ ret = Raises("TypeError")

\* the same names in another order, one role without name: True
C29_WitnessPermutation ==
    /\ VerifyEnded
    /\ Len(env.user_detail.roles.o) = MaxVerifyRoles
    /\ env.expected_role_names = <<"reader", "author">>
    /\ RoleNamesOf(env.user_detail) = <<"author", "reader">>
    /\ ret.ok

----------------------------------------------------------------------------
\* the run of demo_role_cycle.main is over; it sent a DELETE for a role
DemoEnded == Ended /\ prog = "demo_role_cycle.main"
TigerDeleteSent == \E i \in 1..Len(sent) : StartsWith(sent[i], "DELETE /api/roles/")

(* C30: in every terminating run of demo_role_cycle.main in which the       *)
(* creation of role 'tiger' succeeded, a DELETE request for that role is    *)
(* issued before the process ends, whatever later step fails.               *)
C30_CreatedRoleIsDeleted ==
    (DemoEnded /\ env.created) => TigerDeleteSent

\* the DELETE of the role is sent only by a run whose steps 1 to 6 all
\* succeeded
C30_DeleteOnlyAtLastStep ==
    (prog = "demo_role_cycle.main" /\ TigerDeleteSent) =>
        /\ env.created
        /\ env.at = Len(DemoMainPlan)
        /\ sent[Len(sent)] = "DELETE /api/roles/" \o env.tiger_role_id

\* the role was created with an id, the profile of bob could not be read:
\* the run ended with code 1 and the role is still there
C30_ExitAfterCreate ==
    /\ DemoEnded
    /\ env.created
    /\ env.tiger_role_id = "5"
    /\ sent = <<"POST /api/auth/login", "POST /api/roles",
                "GET /api/auth/profile/:identifier">>
    /\ ret = Exits(1)

====
